---------------------------- MODULE Spec2Model ----------------------------
(***************************************************************************)
(* Model of the ShockerServer hub (src/server.js, second draft, lines      *)
(* 702-1694): the device state record, the WebSocket connection registry,  *)
(* the broadcast-subscriber map, the fan-out helpers, the /shocker and     *)
(* /broadcast routes, the OpenShock forwarding call and the YouTube        *)
(* subscriber-count monitor.                                               *)
(*                                                                         *)
(* One action is one run-to-completion callback of the Node.js event loop  *)
(* (a route handler up to its first suspension, a WebSocket event          *)
(* listener, a timer callback, the continuation of an awaited promise).    *)
(***************************************************************************)
EXTENDS Integers, Sequences, FiniteSets, TLC

(***************************************************************************)
(* Bounds of the model.                                                    *)
(***************************************************************************)
MaxConns == 2
MaxPending == 1
MaxActivations == 2
MaxPolls == 1

(***************************************************************************)
(* JavaScript values that reach the handlers: undefined, numbers (an       *)
(* integer part, a sign and an optional fractional part .5), strings and   *)
(* arrays of strings.                                                      *)
(***************************************************************************)
Undef == [t |-> "undef"]
Num(n) == [t |-> "num", neg |-> n < 0, ip |-> IF n < 0 THEN 0 - n ELSE n, frac |-> FALSE]
NumHalf(n) == [t |-> "num", neg |-> n < 0, ip |-> IF n < 0 THEN 0 - n ELSE n, frac |-> TRUE]
Str(s) == [t |-> "str", s |-> s]
Arr(a) == [t |-> "arr", a |-> a]
NaNValue == [t |-> "nan"]

\* The characters of the string literals the inputs are drawn from.
Chars(s) ==
  CASE s = "" -> << >>
    [] s = "0" -> <<"0">>
    [] s = "50" -> <<"5", "0">>
    [] s = "100" -> <<"1", "0", "0">>
    [] s = "1000" -> <<"1", "0", "0", "0">>
    [] s = " 300" -> <<" ", "3", "0", "0">>
    [] s = "75%" -> <<"7", "5", "%">>
    [] s = "1e3" -> <<"1", "e", "3">>
    [] s = "abc" -> <<"a", "b", "c">>
    [] s = "-5" -> <<"-", "5">>
    [] s = "true" -> <<"t", "r", "u", "e">>
    [] OTHER -> <<"?">>

DigitChars == <<"0", "1", "2", "3", "4", "5", "6", "7", "8", "9">>
IsDigit(ch) == \E i \in 1..10 : DigitChars[i] = ch
DigitVal(ch) == (CHOOSE i \in 1..10 : DigitChars[i] = ch) - 1

RECURSIVE DigitsOf(_)
DigitsOf(n) == IF n < 10 THEN <<DigitChars[n + 1]>>
               ELSE Append(DigitsOf(n \div 10), DigitChars[(n % 10) + 1])

\* String(x) as parseInt applies it to its argument.
ToChars(v) ==
  CASE v.t = "str" -> Chars(v.s)
    [] v.t = "num" -> (IF v.neg THEN <<"-">> ELSE << >>) \o DigitsOf(v.ip)
                      \o (IF v.frac THEN <<".", "5">> ELSE << >>)
    [] v.t = "undef" -> <<"u", "n", "d", "e", "f", "i", "n", "e", "d">>
    [] OTHER -> <<"?">>

RECURSIVE SkipSpaces(_)
SkipSpaces(cs) == IF cs /= << >> /\ Head(cs) = " " THEN SkipSpaces(Tail(cs)) ELSE cs

RECURSIVE DigitPrefix(_)
DigitPrefix(cs) == IF cs /= << >> /\ IsDigit(Head(cs))
                   THEN <<Head(cs)>> \o DigitPrefix(Tail(cs)) ELSE << >>

RECURSIVE DigitsValue(_, _)
DigitsValue(cs, acc) == IF cs = << >> THEN acc
                        ELSE DigitsValue(Tail(cs), 10 * acc + DigitVal(Head(cs)))

NaN == [nan |-> TRUE, v |-> 0]

\* parseInt(x) without a radix, on decimal input (no "0x" prefix in the domain):
\* leading white space is skipped, an optional sign is read, then the longest
\* prefix of digits; NaN when there is none.
parseInt(v) ==
  LET cs0 == SkipSpaces(ToChars(v))
      neg == cs0 /= << >> /\ Head(cs0) = "-"
      cs1 == IF cs0 /= << >> /\ Head(cs0) \in {"-", "+"} THEN Tail(cs0) ELSE cs0
      ds == DigitPrefix(cs1)
  IN IF ds = << >> THEN NaN
     ELSE [nan |-> FALSE, v |-> IF neg THEN 0 - DigitsValue(ds, 0) ELSE DigitsValue(ds, 0)]

\* JavaScript truthiness, as the handlers' !x tests use it.
Truthy(v) ==
  CASE v.t = "undef" -> FALSE
    [] v.t = "nan" -> FALSE
    [] v.t = "num" -> ~(v.ip = 0 /\ ~v.frac)
    [] v.t = "str" -> v.s /= ""
    [] OTHER -> TRUE

MinIntensity == 0
MaxIntensity == 100
MinTime == 300
MaxTime == 30000

validateIntensity(intensity) ==
  LET num == parseInt(intensity) IN ~num.nan /\ num.v >= MinIntensity /\ num.v <= MaxIntensity

\* A check of the time with no bounds: any number that is not negative.
validateTimeUnbounded(time) ==
  LET num == parseInt(time) IN ~num.nan /\ num.v >= 0

validateTime(time) ==
  LET num == parseInt(time) IN ~num.nan /\ num.v >= MinTime /\ num.v <= MaxTime


(***************************************************************************)
(* String helpers over the literals of the input domain.                   *)
(***************************************************************************)
\* s.split(',')
SplitComma(s) ==
  CASE s = "d1,d2" -> <<"d1", "d2">>
    [] s = " d1 , " -> <<" d1 ", " ">>
    [] s = " , " -> <<" ", " ">>
    [] OTHER -> <<s>>

\* s.trim()
Trim(s) ==
  CASE s = " d1 " -> "d1"
    [] s = " " -> ""
    [] OTHER -> s

RECURSIVE TrimAll(_)
TrimAll(list) == IF list = << >> THEN << >> ELSE <<Trim(Head(list))>> \o TrimAll(Tail(list))

NonEmptyStr(s) == s /= ""

\* list.map(id => id.trim()).filter(id => id.length > 0)
TrimAndFilter(list) == SelectSeq(TrimAll(list), NonEmptyStr)

Range(seq) == {seq[i] : i \in 1..Len(seq)}

(***************************************************************************)
(* State.                                                                  *)
(***************************************************************************)
VARIABLES
  alive,                   \* the Node.js process has not died of an uncaught exception
  env,                     \* process.env, fixed at start
  apiKeys,                 \* const apiKeys = new Set()
  readyState,              \* ws.readyState of every WebSocket
  connectedClients,        \* const connectedClients = new Set(), in insertion order
  broadcastSubscribers,    \* const broadcastSubscribers = new Map(), in insertion order
  shockerState,            \* let shockerState
  activations,             \* number of accepted activations (the clock of lastActivated)
  timers,                  \* pending setTimeout callbacks of /shocker/activate
  scheduled,               \* number of setTimeout calls of /shocker/activate so far
  fired,                   \* number of runs of those callbacks so far
  pending,                 \* OpenShock requests in flight, one per suspended broadcast
  recording,               \* history: pending keeps the shockers written and who was notified
  ytStarted,               \* startServers().then(...) has run
  ytIntervals,             \* live setInterval handles of the YouTube monitor
  ytInFlight,              \* getYouTubeSubscriberCount() promises not yet settled
  previousSubscriberCount, \* let previousSubscriberCount
  sent,                    \* per connection, the envelope the last step sent to it
  outCalls,                \* the OpenShock requests the last step issued
  response,                \* the HTTP response the last step produced
  log                      \* the console lines of the last step the model keeps

vars == <<alive, env, apiKeys, readyState, connectedClients, broadcastSubscribers,
          shockerState, activations, timers, scheduled, fired, pending, recording,
          ytStarted, ytIntervals,
          ytInFlight, previousSubscriberCount, sent, outCalls, response, log>>

hubVars == <<readyState, connectedClients, broadcastSubscribers>>
deviceVars == <<shockerState, activations, timers, scheduled, fired>>
ytVars == <<ytStarted, ytIntervals, ytInFlight, previousSubscriberCount>>
fixedVars == <<env, apiKeys, recording>>

Conns == 1..MaxConns

WS_MESSAGE_TYPES == [
  STATUS |-> "status",
  SHOCK_ACTIVATED |-> "shock_activated",
  SHOCK_STOPPED |-> "shock_stopped",
  BROADCAST |-> "broadcast",
  ERROR |-> "error",
  PING |-> "ping",
  PONG |-> "pong",
  SUBSCRIBE_BROADCAST |-> "subscribe_broadcast",
  UNSUBSCRIBE_BROADCAST |-> "unsubscribe_broadcast",
  SUBSCRIBED |-> "subscribed",
  UNSUBSCRIBED |-> "unsubscribed"]

NoMsg == [type |-> "none"]
NoResponse == [op |-> "none"]
NothingSent == [c \in Conns |-> NoMsg]

null == [t |-> "null"]

shockerState0 == [isOn |-> FALSE, currentIntensity |-> 0, currentTime |-> 0,
                  lastActivated |-> null]

\* The contents of api-keys.txt the server may start from.
KeyFiles == {{"key1"}}

Env(token, shockerIds, youtube, onChange, intensity) ==
  [OPENSHOCK_API_TOKEN |-> token,
   OPENSHOCK_SHOCKER_IDS |-> shockerIds,
   YOUTUBE_API_KEY |-> youtube,
   YOUTUBE_CHANNEL_ID |-> youtube,
   YOUTUBE_BROADCAST_ON_CHANGE |-> onChange,
   YOUTUBE_BROADCAST_INTENSITY |-> intensity,
   YOUTUBE_BROADCAST_DURATION |-> Undef,
   YOUTUBE_BROADCAST_TYPE |-> Undef]

\* The state once the module is loaded.  rec tells whether the requests in
\* flight are kept with their payload and the subscribers notified before them
\* (history the program does not act on).
InitRecording(envs, keyFiles, rec) ==
  /\ alive = TRUE
  /\ recording = rec
  /\ env \in envs
  /\ apiKeys \in keyFiles
  /\ readyState = [c \in Conns |-> "NONE"]
  /\ connectedClients = << >>
  /\ broadcastSubscribers = << >>
  /\ shockerState = shockerState0
  /\ activations = 0
  /\ timers = << >>
  /\ scheduled = 0
  /\ fired = 0
  /\ pending = << >>
  /\ ytStarted = FALSE
  /\ ytIntervals = 0
  /\ ytInFlight = 0
  /\ previousSubscriberCount = null
  /\ sent = NothingSent
  /\ outCalls = << >>
  /\ log = {}
  /\ response = NoResponse

InitWith(envs, keyFiles) == InitRecording(envs, keyFiles, FALSE)

(***************************************************************************)
(* The two collections.                                                    *)
(***************************************************************************)
IsOpen(ws) == readyState[ws] = "OPEN"

\* Set.prototype.delete on connectedClients
NotWs(ws, list) == SelectSeq(list, LAMBDA x : x /= ws)

\* Set.prototype.add on connectedClients
AddWs(ws, list) == IF ws \in Range(list) THEN list ELSE Append(list, ws)

SubscriberSet(subs) == {subs[i].ws : i \in 1..Len(subs)}

\* broadcastSubscribers.has(ws)
HasSub(subs, ws) == ws \in SubscriberSet(subs)

\* broadcastSubscribers.get(ws)
GetSub(subs, ws) == subs[CHOOSE i \in 1..Len(subs) : subs[i].ws = ws]

\* broadcastSubscribers.delete(ws)
DeleteSub(subs, ws) == SelectSeq(subs, LAMBDA e : e.ws /= ws)

\* A map that adds an entry on every subscribe, next to the one the
\* connection already has.
SetSubAppending(subs, ws, data) ==
  Append(subs, [ws |-> ws, apiKey |-> data.apiKey, shockers |-> data.shockers])

\* broadcastSubscribers.set(ws, data): a present key keeps its place
SetSub(subs, ws, data) ==
  LET entry == [ws |-> ws, apiKey |-> data.apiKey, shockers |-> data.shockers]
  IN IF HasSub(subs, ws)
     THEN [i \in 1..Len(subs) |-> IF subs[i].ws = ws THEN entry ELSE subs[i]]
     ELSE Append(subs, entry)

(***************************************************************************)
(* Fan-out helpers.  failing is the set of sockets whose send() throws in  *)
(* the current callback.                                                   *)
(***************************************************************************)
\* Position in connectedClients of the first OPEN client whose send throws
\* (Len + 1 when none does): forEach stops there, nothing catches the throw.
FirstThrow(clients, failing) ==
  LET bad == {i \in 1..Len(clients) : IsOpen(clients[i]) /\ clients[i] \in failing}
  IN IF bad = {} THEN Len(clients) + 1 ELSE CHOOSE i \in bad : \A j \in bad : i <= j

\* broadcastToClients(message): who got the message, and whether it threw.
broadcastToClients(clients, failing) ==
  LET stop == FirstThrow(clients, failing)
  IN [to |-> {clients[i] : i \in {j \in 1..Len(clients) : j < stop /\ IsOpen(clients[j])}},
      threw |-> stop <= Len(clients)]

\* Mutant: the fan-out of the first draft's broadcastMessage, to every
\* connected client, without touching the subscriber map.
broadcastToSubscribersAll(subs, failing) ==
  [to |-> {c \in Range(connectedClients) : IsOpen(c)},
   subs |-> subs,
   sentCount |-> Cardinality({c \in Range(connectedClients) : IsOpen(c)}),
   threw |-> FALSE]

\* A fan-out to the subscribers that deletes nothing from the map.
broadcastToSubscribersKeeping(subs, failing) ==
  LET ok(e) == IsOpen(e.ws) /\ e.ws \notin failing
      kept == SelectSeq(subs, ok)
  IN [to |-> SubscriberSet(kept), subs |-> subs, sentCount |-> Len(kept),
      threw |-> \E i \in 1..Len(subs) : IsOpen(subs[i].ws) /\ subs[i].ws \in failing]

\* A fan-out that passes over the subscribers without shockers: they stay in
\* the map and are sent nothing.
broadcastToSubscribersWithShockers(subs, failing) ==
  LET ok(e) == IsOpen(e.ws) /\ e.ws \notin failing
      kept == SelectSeq(subs, ok)
      served == SelectSeq(kept, LAMBDA e : Len(e.shockers) > 0)
  IN [to |-> SubscriberSet(served), subs |-> kept, sentCount |-> Len(served),
      threw |-> \E i \in 1..Len(subs) : IsOpen(subs[i].ws) /\ subs[i].ws \in failing]

\* broadcastToSubscribers(message): who got the message, the map afterwards
\* (entries that are not OPEN or whose send threw are deleted) and sentCount.
broadcastToSubscribers(subs, failing) ==
  LET ok(e) == IsOpen(e.ws) /\ e.ws \notin failing
      kept == SelectSeq(subs, ok)
  IN [to |-> SubscriberSet(kept), subs |-> kept, sentCount |-> Len(kept),
      threw |-> \E i \in 1..Len(subs) : IsOpen(subs[i].ws) /\ subs[i].ws \in failing]

RECURSIVE AddAll(_, _)
AddAll(acc, list) ==
  IF list = << >> THEN acc
  ELSE AddAll(IF Head(list) \in Range(acc) THEN acc ELSE Append(acc, Head(list)), Tail(list))

RECURSIVE CollectFrom(_, _)
CollectFrom(subs, acc) ==
  IF subs = << >> THEN acc
  ELSE CollectFrom(Tail(subs),
                   IF IsOpen(Head(subs).ws) THEN AddAll(acc, Head(subs).shockers) ELSE acc)

\* Mutant: only the first subscriber's shockers.
collectSubscriberShockersFirst(subs) ==
  LET open == SelectSeq(subs, LAMBDA e : IsOpen(e.ws))
  IN IF open = << >> THEN << >> ELSE AddAll(<< >>, Head(open).shockers)

\* collectSubscriberShockers(): Array.from of the Set of every shocker of every
\* subscriber whose socket is OPEN.
collectSubscriberShockers(subs) == CollectFrom(subs, << >>)

\* Mutant: one request per subscriber key would be authenticated with that key;
\* here the request is authenticated with the first subscriber's apiKey.
forwardTokenOfSubscriber(subs) ==
  IF subs = << >> THEN env.OPENSHOCK_API_TOKEN ELSE Head(subs).apiKey

\* const apiToken = process.env.OPENSHOCK_API_TOKEN
forwardToken(subs) == env.OPENSHOCK_API_TOKEN

\* sendOpenShockControl(shockers, intensity, duration, type) up to the point
\* where it either resolves at once or has written the request.
sendOpenShockControl(subs, shockers, intensity, duration, type) ==
  LET apiToken == forwardToken(subs)
      openshockShockers == env.OPENSHOCK_SHOCKER_IDS
  IN IF ~Truthy(apiToken) \/ ~Truthy(openshockShockers)
     THEN [request |-> FALSE, enabled |-> FALSE, message |-> "OpenShock API not configured"]
     ELSE LET shockerList == TrimAndFilter(SplitComma(openshockShockers.s))
              shockerIds == IF Len(shockers) > 0 THEN shockers ELSE shockerList
          IN IF Len(shockerIds) = 0
             THEN [request |-> FALSE, enabled |-> FALSE, message |-> "No shockers specified"]
             ELSE [request |-> TRUE,
                   call |-> [token |-> apiToken,
                             shockers |-> shockerIds,
                             intensity |-> parseInt(intensity).v,
                             duration |-> parseInt(duration).v,
                             type |-> IF type = Str("vibrate") THEN "vibrate" ELSE "shock"]]

validTypes == {"shock", "vibrate"}
TypeIncluded(type) == type.t = "str" /\ type.s \in validTypes

\* The checks at the head of broadcastMessage.
broadcastMessageValid(intensity, duration, type) ==
  TypeIncluded(type) /\ validateIntensity(intensity) /\ validateTime(duration)

\* The checks at the head of executeBroadcast: the error, or "ok".
executeBroadcastCheck(intensity, duration, type) ==
  IF ~Truthy(intensity) \/ ~Truthy(duration) \/ ~Truthy(type)
    THEN "Missing required parameters"
  ELSE IF ~TypeIncluded(type) THEN "Invalid type"
  ELSE IF ~validateIntensity(intensity) THEN "Invalid intensity"
  ELSE IF ~validateTime(duration) THEN "Invalid duration"
  ELSE "ok"

BroadcastEnvelope(intensity, duration, type) ==
  [type |-> WS_MESSAGE_TYPES.BROADCAST,
   intensity |-> parseInt(intensity).v,
   duration |-> parseInt(duration).v,
   kind |-> type.s]

\* The result object of a successful executeBroadcast, as /broadcast answers it.
BroadcastOk(intensity, duration, type, subs) ==
  [op |-> "broadcast", status |-> 200, success |-> TRUE, error |-> "",
   intensity |-> parseInt(intensity).v, duration |-> parseInt(duration).v,
   type |-> type.s, subscribers |-> Len(subs)]

\* The status /broadcast gives a failed result.
BroadcastFailed(error) ==
  [op |-> "broadcast",
   status |-> IF error \in {"Missing required parameters", "Invalid type",
                            "Invalid intensity", "Invalid duration"} THEN 400 ELSE 500,
   success |-> FALSE, error |-> error]

\* The suspended broadcast: the arguments executeBroadcast still needs for its
\* result and, when recording, the shockers of the payload written with
\* req.write and the subscribers broadcastToSubscribers sent to.
InFlight(origin, intensity, duration, type, call, to) ==
  [origin |-> origin, intensity |-> intensity, duration |-> duration, type |-> type,
   shockers |-> IF recording THEN call.shockers ELSE << >>,
   notified |-> IF recording THEN to ELSE {}]

\* A broadcast that collects the shockers and issues the OpenShock request
\* before it notifies the subscribers.
executeBroadcastForwardFirst(intensity, duration, type, failing, origin) ==
  LET check == executeBroadcastCheck(intensity, duration, type)
      answer(r) == IF origin = "http" THEN r ELSE NoResponse
  IN IF check /= "ok"
     THEN /\ response' = answer(BroadcastFailed(check))
          /\ sent' = NothingSent
          /\ outCalls' = << >>
          /\ log' = {}
          /\ UNCHANGED <<broadcastSubscribers, pending>>
     ELSE IF ~broadcastMessageValid(intensity, duration, type)
     THEN /\ response' = answer(BroadcastFailed("Broadcast failed"))
          /\ sent' = NothingSent
          /\ outCalls' = << >>
          /\ log' = {"Invalid broadcast"}
          /\ UNCHANGED <<broadcastSubscribers, pending>>
     ELSE LET fan == broadcastToSubscribers(broadcastSubscribers, failing)
              allShockers == collectSubscriberShockers(broadcastSubscribers)
              fwd == IF Len(allShockers) > 0
                     THEN sendOpenShockControl(broadcastSubscribers, allShockers, intensity, duration, type)
                     ELSE [request |-> FALSE]
          IN /\ broadcastSubscribers' = fan.subs
             /\ log' = IF fan.threw THEN {"Error sending to broadcast subscriber"} ELSE {}
             /\ sent' = [c \in Conns |-> IF c \in fan.to
                                         THEN BroadcastEnvelope(intensity, duration, type)
                                         ELSE NoMsg]
             /\ IF fwd.request
                THEN /\ Len(pending) < MaxPending
                     /\ outCalls' = <<fwd.call>>
                     /\ pending' = Append(pending, InFlight(origin, intensity, duration, type,
                                                             fwd.call, fan.to))
                     /\ response' = NoResponse
                ELSE /\ outCalls' = << >>
                     /\ pending' = pending
                     /\ response' = answer(BroadcastOk(intensity, duration, type, fan.subs))

\* executeBroadcast(intensity, duration, type), called from origin ("http" for
\* the /broadcast route, "poll" for the YouTube monitor), up to its return or
\* to the suspension on the OpenShock request.
executeBroadcast(intensity, duration, type, failing, origin) ==
  LET check == executeBroadcastCheck(intensity, duration, type)
      answer(r) == IF origin = "http" THEN r ELSE NoResponse
  IN IF check /= "ok"
     THEN /\ response' = answer(BroadcastFailed(check))
          /\ sent' = NothingSent
          /\ outCalls' = << >>
          /\ log' = {}
          /\ UNCHANGED <<broadcastSubscribers, pending>>
     ELSE IF ~broadcastMessageValid(intensity, duration, type)
     THEN /\ response' = answer(BroadcastFailed("Broadcast failed"))
          /\ sent' = NothingSent
          /\ outCalls' = << >>
          /\ log' = {"Invalid broadcast"}
          /\ UNCHANGED <<broadcastSubscribers, pending>>
     ELSE LET fan == broadcastToSubscribers(broadcastSubscribers, failing)
              allShockers == collectSubscriberShockers(fan.subs)
              fwd == IF Len(allShockers) > 0
                     THEN sendOpenShockControl(fan.subs, allShockers, intensity, duration, type)
                     ELSE [request |-> FALSE]
          IN /\ broadcastSubscribers' = fan.subs
             /\ log' = IF fan.threw THEN {"Error sending to broadcast subscriber"} ELSE {}
             /\ sent' = [c \in Conns |-> IF c \in fan.to
                                         THEN BroadcastEnvelope(intensity, duration, type)
                                         ELSE NoMsg]
             /\ IF fwd.request
                THEN /\ Len(pending) < MaxPending
                     /\ outCalls' = <<fwd.call>>
                     /\ pending' = Append(pending, InFlight(origin, intensity, duration, type,
                                                             fwd.call, fan.to))
                     /\ response' = NoResponse
                ELSE /\ outCalls' = << >>
                     /\ pending' = pending
                     /\ response' = answer(BroadcastOk(intensity, duration, type, fan.subs))

(***************************************************************************)
(* Input domains.                                                          *)
(***************************************************************************)
IntensityInputs == {Undef, Num(0), Num(50), NumHalf(100), Num(101), Num(-1), Str("0"), Str("abc")}
TimeInputs == {Undef, Num(0), Num(299), Num(300), NumHalf(30000), Num(30001), Str("abc")}

Body(intensity, duration, type, apiKey) ==
  [intensity |-> intensity, duration |-> duration, type |-> type, apiKey |-> apiKey]

\* Request bodies of POST /broadcast: every key with good parameters, every
\* value of each parameter with a good key, and bad keys with bad parameters.
BroadcastBodies ==
  {Body(Num(50), Num(300), Str("shock"), k) : k \in {Undef, Str(""), Str("key1"), Str("key2")}}
  \cup {Body(i, Num(300), Str("vibrate"), Str("key1")) : i \in {Num(0), NumHalf(100), Num(101)}}
  \cup {Body(Num(50), d, Str("shock"), Str("key1")) : d \in {Num(299), Num(30001)}}
  \cup {Body(Num(50), Num(300), t, Str("key1")) : t \in {Undef, Str("zap")}}
  \cup {Body(Num(101), Num(299), Str("zap"), Str("bad"))}

\* The subscribe_broadcast messages of the hub: two shockers under one key,
\* and a second key with a comma-separated list.
SubscribeMessages ==
  {[shockers |-> Arr(<<"d1">>), apiKey |-> Str("key1")],
   [shockers |-> Arr(<<"d2">>), apiKey |-> Str("key1")],
   [shockers |-> Str(" d1 , "), apiKey |-> Str("key2")]}

ResetOut == /\ sent' = NothingSent
            /\ outCalls' = << >>
            /\ response' = NoResponse
            /\ log' = {}

(***************************************************************************)
(* WebSocket lifecycle.                                                    *)
(***************************************************************************)
\* wss.on('connection')
Connection(ws) ==
  /\ alive
  /\ readyState[ws] = "NONE"
  /\ \A other \in 1..(ws - 1) : readyState[other] /= "NONE"
  /\ readyState' = [readyState EXCEPT ![ws] = "OPEN"]
  /\ connectedClients' = AddWs(ws, connectedClients)
  /\ ResetOut
  /\ UNCHANGED <<alive, fixedVars, broadcastSubscribers, deviceVars, pending, ytVars>>

\* The transport leaves OPEN (the closing handshake has begun); the 'close'
\* event has not been emitted yet.
TransportClosing(ws) ==
  /\ alive
  /\ readyState[ws] = "OPEN"
  /\ readyState' = [readyState EXCEPT ![ws] = "CLOSING"]
  /\ ResetOut
  /\ UNCHANGED <<alive, fixedVars, connectedClients, broadcastSubscribers, deviceVars,
                 pending, ytVars>>

\* Mutant: a disconnect handler that forgets the subscriber map.
DisconnectKeepSub(ws) ==
  /\ connectedClients' = NotWs(ws, connectedClients)
  /\ broadcastSubscribers' = broadcastSubscribers
  /\ log' = IF HasSub(broadcastSubscribers, ws)
            THEN {"Removed from broadcast subscribers"} ELSE {}

\* The body shared by ws.on('close') and ws.on('error').
Disconnect(ws) ==
  /\ connectedClients' = NotWs(ws, connectedClients)
  /\ broadcastSubscribers' = IF HasSub(broadcastSubscribers, ws)
                             THEN DeleteSub(broadcastSubscribers, ws)
                             ELSE broadcastSubscribers
  /\ log' = IF HasSub(broadcastSubscribers, ws)
            THEN {"Removed from broadcast subscribers"} ELSE {}

\* A close that reaches into the requests in flight: the connection is struck
\* from those notified and the payloads are cut down to the shockers of the
\* subscribers that remain.
OnCloseWithdrawing(ws) ==
  /\ alive
  /\ readyState[ws] \in {"OPEN", "CLOSING"}
  /\ readyState' = [readyState EXCEPT ![ws] = "CLOSED"]
  /\ Disconnect(ws)
  /\ sent' = NothingSent
  /\ outCalls' = << >>
  /\ response' = NoResponse
  /\ pending' = [i \in 1..Len(pending) |->
                   [pending[i] EXCEPT
                      !.notified = @ \ {ws},
                      !.shockers = SelectSeq(@, LAMBDA d :
                                     \E j \in 1..Len(broadcastSubscribers) :
                                        /\ broadcastSubscribers[j].ws /= ws
                                        /\ d \in Range(broadcastSubscribers[j].shockers))]]
  /\ UNCHANGED <<alive, fixedVars, deviceVars, ytVars>>

\* ws.on('close'): emitted with readyState CLOSED
OnClose(ws) ==
  /\ alive
  /\ readyState[ws] \in {"OPEN", "CLOSING"}
  /\ readyState' = [readyState EXCEPT ![ws] = "CLOSED"]
  /\ Disconnect(ws)
  /\ sent' = NothingSent
  /\ outCalls' = << >>
  /\ response' = NoResponse
  /\ UNCHANGED <<alive, fixedVars, deviceVars, pending, ytVars>>

\* ws.on('error'): emitted with readyState CLOSING, before 'close'
OnError(ws) ==
  /\ alive
  /\ readyState[ws] \in {"OPEN", "CLOSING"}
  /\ readyState' = [readyState EXCEPT ![ws] = "CLOSING"]
  /\ Disconnect(ws)
  /\ sent' = NothingSent
  /\ outCalls' = << >>
  /\ response' = NoResponse
  /\ UNCHANGED <<alive, fixedVars, deviceVars, pending, ytVars>>

(***************************************************************************)
(* ws.on('message'): one action per case of the switch.                   *)
(***************************************************************************)
\* How the sends of one message handler go: none throws; the handler's send
\* throws and the catch block's send goes through; both throw.
Throws == {"none", "first", "both"}

\* ws.send(...) inside the try block of the message handler; the catch block
\* sends the error envelope, and a throw out of the catch block is an
\* uncaught exception.
Reply(ws, msg, throws) ==
  /\ sent' = CASE throws = "none" -> [NothingSent EXCEPT ![ws] = msg]
              [] throws = "first" ->
                   [NothingSent EXCEPT ![ws] = [type |-> WS_MESSAGE_TYPES.ERROR,
                                                message |-> "Invalid message format"]]
              [] OTHER -> NothingSent
  /\ alive' = (throws /= "both")
  /\ outCalls' = << >>
  /\ response' = NoResponse
  /\ log' = {}

\* case WS_MESSAGE_TYPES.PING
OnPing(ws, throws) ==
  /\ alive
  /\ IsOpen(ws)
  /\ Reply(ws, [type |-> WS_MESSAGE_TYPES.PONG], throws)
  /\ UNCHANGED <<fixedVars, hubVars, deviceVars, pending, ytVars>>

\* case WS_MESSAGE_TYPES.STATUS
OnStatus(ws, throws) ==
  /\ alive
  /\ IsOpen(ws)
  /\ Reply(ws, [type |-> WS_MESSAGE_TYPES.STATUS, data |-> shockerState], throws)
  /\ UNCHANGED <<fixedVars, hubVars, deviceVars, pending, ytVars>>

\* A subscribe that ignores the default list of the environment.
ResolveShockersNoDefault(shockers) ==
  IF ~Truthy(shockers) THEN << >>
  ELSE IF shockers.t = "arr" THEN TrimAndFilter(shockers.a)
  ELSE IF shockers.t = "str" THEN TrimAndFilter(SplitComma(shockers.s))
  ELSE << >>

\* The shocker list of a subscribe_broadcast message.
ResolveShockers(shockers) ==
  LET given == IF ~Truthy(shockers) THEN << >>
               ELSE IF shockers.t = "arr" THEN TrimAndFilter(shockers.a)
               ELSE IF shockers.t = "str" THEN TrimAndFilter(SplitComma(shockers.s))
               ELSE << >>
      defaultShockers == env.OPENSHOCK_SHOCKER_IDS
  IN IF Len(given) = 0 /\ Truthy(defaultShockers)
     THEN TrimAndFilter(SplitComma(defaultShockers.s))
     ELSE given

\* A subscribe that refuses an absent or empty API key.
OnSubscribeRequiringKey(ws, shockers, apiKey, throws) ==
  /\ alive
  /\ IsOpen(ws)
  /\ IF Truthy(apiKey)
     THEN LET shockerList == ResolveShockers(shockers)
          IN /\ broadcastSubscribers' =
                  SetSub(broadcastSubscribers, ws, [apiKey |-> apiKey, shockers |-> shockerList])
             /\ Reply(ws, [type |-> WS_MESSAGE_TYPES.SUBSCRIBED, shockers |-> shockerList], throws)
     ELSE /\ broadcastSubscribers' = broadcastSubscribers
          /\ Reply(ws, [type |-> WS_MESSAGE_TYPES.ERROR, message |-> "Missing API key"], throws)
  /\ UNCHANGED <<fixedVars, readyState, connectedClients, deviceVars, pending, ytVars>>

\* case WS_MESSAGE_TYPES.SUBSCRIBE_BROADCAST
OnSubscribe(ws, shockers, apiKey, throws) ==
  /\ alive
  /\ IsOpen(ws)
  /\ LET shockerList == ResolveShockers(shockers)
     IN /\ broadcastSubscribers' =
             SetSub(broadcastSubscribers, ws, [apiKey |-> apiKey, shockers |-> shockerList])
        /\ Reply(ws, [type |-> WS_MESSAGE_TYPES.SUBSCRIBED, shockers |-> shockerList], throws)
  /\ UNCHANGED <<fixedVars, readyState, connectedClients, deviceVars, pending, ytVars>>

\* An unsubscribe that empties the subscriber map.
OnUnsubscribeClearing(ws, throws) ==
  /\ alive
  /\ IsOpen(ws)
  /\ broadcastSubscribers' = << >>
  /\ Reply(ws, [type |-> WS_MESSAGE_TYPES.UNSUBSCRIBED,
                message |-> IF HasSub(broadcastSubscribers, ws)
                            THEN "Successfully unsubscribed from broadcasts"
                            ELSE "Not subscribed to broadcasts"], throws)
  /\ UNCHANGED <<fixedVars, readyState, connectedClients, deviceVars, pending, ytVars>>

\* case WS_MESSAGE_TYPES.UNSUBSCRIBE_BROADCAST
OnUnsubscribe(ws, throws) ==
  /\ alive
  /\ IsOpen(ws)
  /\ IF HasSub(broadcastSubscribers, ws)
     THEN /\ broadcastSubscribers' = DeleteSub(broadcastSubscribers, ws)
          /\ Reply(ws, [type |-> WS_MESSAGE_TYPES.UNSUBSCRIBED,
                        message |-> "Successfully unsubscribed from broadcasts"], throws)
     ELSE /\ broadcastSubscribers' = broadcastSubscribers
          /\ Reply(ws, [type |-> WS_MESSAGE_TYPES.UNSUBSCRIBED,
                        message |-> "Not subscribed to broadcasts"], throws)
  /\ UNCHANGED <<fixedVars, readyState, connectedClients, deviceVars, pending, ytVars>>

\* A handler that answers a message it cannot parse and then closes the
\* connection.
OnOtherMessageClosing(ws, parses, throws) ==
  /\ alive
  /\ IsOpen(ws)
  /\ IF parses
     THEN /\ ResetOut
          /\ alive' = alive
          /\ readyState' = readyState
     ELSE /\ Reply(ws, [type |-> WS_MESSAGE_TYPES.ERROR, message |-> "Invalid message format"],
                   IF throws THEN "both" ELSE "none")
          /\ readyState' = [readyState EXCEPT ![ws] = "CLOSING"]
  /\ UNCHANGED <<fixedVars, connectedClients, broadcastSubscribers, deviceVars, pending, ytVars>>

\* default: an unknown type is logged; JSON.parse failing: the catch block
\* sends the error envelope.
OnOtherMessage(ws, parses, throws) ==
  /\ alive
  /\ IsOpen(ws)
  /\ IF parses
     THEN /\ ResetOut
          /\ alive' = alive
     ELSE Reply(ws, [type |-> WS_MESSAGE_TYPES.ERROR, message |-> "Invalid message format"],
                IF throws THEN "both" ELSE "none")
  /\ UNCHANGED <<fixedVars, hubVars, deviceVars, pending, ytVars>>

(***************************************************************************)
(* POST /broadcast                                                         *)
(***************************************************************************)
\* Mutant: a key check that accepts every string.
validateApiKeyAny(key) == key.t = "str"

validateApiKey(key) == key.t = "str" /\ key.s \in apiKeys

Unauthorized(op) == [op |-> op, status |-> 401, success |-> FALSE, error |-> "Unauthorized"]

\* A route that validates the parameters before it looks at the key.
PostBroadcastValidatingFirst(body, failing) ==
  /\ alive
  /\ IF executeBroadcastCheck(body.intensity, body.duration, body.type) = "ok"
        /\ (~Truthy(body.apiKey) \/ ~validateApiKey(body.apiKey))
     THEN /\ response' = Unauthorized("broadcast")
          /\ sent' = NothingSent
          /\ outCalls' = << >>
          /\ log' = {}
          /\ UNCHANGED <<broadcastSubscribers, pending>>
     ELSE executeBroadcast(body.intensity, body.duration, body.type, failing, "http")
  /\ UNCHANGED <<alive, fixedVars, readyState, connectedClients, deviceVars, ytVars>>

\* app.post('/broadcast')
PostBroadcast(body, failing) ==
  /\ alive
  /\ IF ~Truthy(body.apiKey) \/ ~validateApiKey(body.apiKey)
     THEN /\ response' = Unauthorized("broadcast")
          /\ sent' = NothingSent
          /\ outCalls' = << >>
          /\ log' = {}
          /\ UNCHANGED <<broadcastSubscribers, pending>>
     ELSE executeBroadcast(body.intensity, body.duration, body.type, failing, "http")
  /\ UNCHANGED <<alive, fixedVars, readyState, connectedClients, deviceVars, ytVars>>

\* What comes back for the OpenShock request: a response with its status
\* code and body (empty, JSON, or text that is not JSON), or an 'error' event
\* of the request.
Answer(statusCode, data) == [kind |-> "response", statusCode |-> statusCode, data |-> data]
TransportError == [kind |-> "error", statusCode |-> 0, data |-> ""]

\* The answers the hub is run with: a 2xx, a non-2xx and a transport error.
ForwardOutcomes == {Answer(200, "json"), Answer(500, "json"), TransportError}

\* Every kind of answer.
OpenShockAnswers ==
  {Answer(statusCode, data) : statusCode \in {200, 204, 301, 400, 500},
                              data \in {"", "json", "html"}}
  \cup {TransportError}

Settled(how, success, statusCode, message) ==
  [settled |-> how, enabled |-> TRUE, success |-> success, statusCode |-> statusCode,
   message |-> message]

\* A result that treats a body it cannot parse as an empty one.
openShockResultLenient(answer) ==
  IF answer.kind = "error"
  THEN Settled("reject", FALSE, 0, "OpenShock API request failed")
  ELSE IF answer.statusCode >= 200 /\ answer.statusCode < 300
  THEN Settled("resolve", TRUE, answer.statusCode, "")
  ELSE Settled("resolve", FALSE, answer.statusCode,
               IF answer.data = "json" THEN "api message" ELSE "Unknown error")

\* How the promise of sendOpenShockControl settles once the request was
\* written: res.on('end') and req.on('error').
openShockResult(answer) ==
  IF answer.kind = "error"
  THEN Settled("reject", FALSE, 0, "OpenShock API request failed")
  ELSE IF answer.data /= "" /\ answer.data /= "json"
  THEN Settled("reject", FALSE, 0, "Failed to parse OpenShock API response")
  ELSE IF answer.statusCode >= 200 /\ answer.statusCode < 300
  THEN Settled("resolve", TRUE, answer.statusCode, "")
  ELSE Settled("resolve", FALSE, answer.statusCode,
               IF answer.data = "" THEN "Unknown error" ELSE "api message")

\* What broadcastMessage logs about the awaited result.
broadcastMessageLog(result) ==
  CASE result.settled = "reject" /\ result.message = "OpenShock API request failed"
         -> {"OpenShock API error: OpenShock API request failed"}
    [] result.settled = "reject"
         -> {"OpenShock API error: Failed to parse OpenShock API response"}
    [] result.success -> {"OpenShock API: Control sent"}
    [] result.message = "Unknown error" -> {"OpenShock API: Control failed - Unknown error"}
    [] OTHER -> {"OpenShock API: Control failed - api message"}

\* A forwarding whose rejection escapes broadcastMessage: the route answers
\* a failed broadcast.
ForwardingDoneFailing(i, answer) ==
  /\ alive
  /\ i \in 1..Len(pending)
  /\ LET p == pending[i]
     IN response' = IF p.origin /= "http" THEN NoResponse
                    ELSE IF openShockResult(answer).settled = "reject"
                    THEN BroadcastFailed("Broadcast failed")
                    ELSE BroadcastOk(p.intensity, p.duration, p.type, broadcastSubscribers)
  /\ pending' = [j \in 1..(Len(pending) - 1) |-> IF j < i THEN pending[j] ELSE pending[j + 1]]
  /\ sent' = NothingSent
  /\ outCalls' = << >>
  /\ log' = broadcastMessageLog(openShockResult(answer))
  /\ UNCHANGED <<alive, fixedVars, hubVars, deviceVars, ytVars>>

\* The OpenShock request of pending[i] is answered: the promise settles,
\* broadcastMessage logs the outcome and returns true; executeBroadcast
\* builds its result, and the /broadcast route answers it.
ForwardingDone(i, answer) ==
  /\ alive
  /\ i \in 1..Len(pending)
  /\ LET p == pending[i]
     IN response' = IF p.origin = "http"
                    THEN BroadcastOk(p.intensity, p.duration, p.type, broadcastSubscribers)
                    ELSE NoResponse
  /\ pending' = [j \in 1..(Len(pending) - 1) |-> IF j < i THEN pending[j] ELSE pending[j + 1]]
  /\ sent' = NothingSent
  /\ outCalls' = << >>
  /\ log' = broadcastMessageLog(openShockResult(answer))
  /\ UNCHANGED <<alive, fixedVars, hubVars, deviceVars, ytVars>>

(***************************************************************************)
(* The hub: connections, subscriptions, /broadcast and its forwarding.     *)
(***************************************************************************)
\* OpenShock forwarding not configured, or configured with a default shocker.
HubEnvs == {Env(Undef, Undef, Undef, Undef, Undef),
            Env(Str("tok"), Str("d3"), Undef, Undef, Undef)}

Init == InitWith(HubEnvs, KeyFiles)

Lifecycle ==
  \E ws \in Conns :
    \/ Connection(ws)
    \/ TransportClosing(ws)
    \/ OnClose(ws)
    \/ OnError(ws)

Subscriptions ==
  \E ws \in Conns :
    \/ \E m \in SubscribeMessages : OnSubscribe(ws, m.shockers, m.apiKey, "none")
    \/ OnUnsubscribe(ws, "none")

Broadcasts ==
  \/ \E body \in BroadcastBodies : PostBroadcast(body, {})
  \/ \E ws \in SubscriberSet(broadcastSubscribers) :
       PostBroadcast(Body(Num(50), Num(300), Str("shock"), Str("key1")), {ws})
  \/ \E i \in 1..MaxPending, answer \in ForwardOutcomes : ForwardingDone(i, answer)

Next == Lifecycle \/ Subscriptions \/ Broadcasts

Spec == Init /\ [][Next]_vars

(***************************************************************************)
(* The device routes.                                                      *)
(***************************************************************************)
ActivateBody(intensity, time) == [intensity |-> intensity, time |-> time]

\* Request bodies of POST /shocker/activate.
ActivateBodies ==
  {ActivateBody(i, Num(300)) : i \in IntensityInputs}
  \cup {ActivateBody(Num(50), t) : t \in TimeInputs}
  \cup {ActivateBody(Num(101), Num(299)), ActivateBody(Num(50), Num(30000))}

\* The checks at the head of POST /shocker/activate: the error, or "ok".
activateCheck(intensity, time) ==
  IF ~Truthy(intensity) \/ ~Truthy(time) THEN "Missing required parameters"
  ELSE IF ~validateIntensity(intensity) THEN "Invalid intensity"
  ELSE IF ~validateTime(time) THEN "Invalid time"
  ELSE "ok"

ShockerBody(op, st) ==
  [op |-> op, status |-> 200, success |-> TRUE, error |-> "",
   isOn |-> st.isOn, intensity |-> st.currentIntensity, time |-> st.currentTime,
   lastActivated |-> st.lastActivated]

\* The answer of /shocker/stop: the shocker without its lastActivated.
StopBody(st) ==
  [op |-> "stop", status |-> 200, success |-> TRUE, error |-> "",
   isOn |-> st.isOn, intensity |-> st.currentIntensity, time |-> st.currentTime]

BadRequest(op, error) == [op |-> op, status |-> 400, success |-> FALSE, error |-> error]

\* The error-handling middleware: what a throw out of a route handler becomes.
InternalError(op) == [op |-> op, status |-> 500, success |-> FALSE,
                      error |-> "Internal server error"]

FanOut(fan, msg) == [c \in Conns |-> IF c \in fan.to THEN msg ELSE NoMsg]

\* app.post('/shocker/activate')
PostActivate(body, failing) ==
  /\ alive
  /\ LET check == activateCheck(body.intensity, body.time)
     IN IF check /= "ok"
        THEN /\ response' = BadRequest("activate", check)
             /\ sent' = NothingSent
             /\ UNCHANGED deviceVars
        ELSE /\ activations < MaxActivations
             /\ LET st == [isOn |-> TRUE,
                           currentIntensity |-> parseInt(body.intensity).v,
                           currentTime |-> parseInt(body.time).v,
                           lastActivated |-> activations + 1]
                    fan == broadcastToClients(connectedClients, failing)
                IN /\ shockerState' = st
                   /\ activations' = activations + 1
                   /\ sent' = FanOut(fan, [type |-> WS_MESSAGE_TYPES.SHOCK_ACTIVATED,
                                           isOn |-> st.isOn,
                                           intensity |-> st.currentIntensity,
                                           time |-> st.currentTime,
                                           activatedAt |-> st.lastActivated])
                   /\ IF fan.threw
                      THEN /\ timers' = timers
                           /\ scheduled' = scheduled
                           /\ response' = InternalError("activate")
                      ELSE /\ timers' = Append(timers, parseInt(body.time).v)
                           /\ scheduled' = scheduled + 1
                           /\ response' = ShockerBody("activate", st)
                   /\ fired' = fired
  /\ outCalls' = << >>
  /\ log' = {}
  /\ UNCHANGED <<alive, fixedVars, hubVars, pending, ytVars>>

\* Mutant: a stop that only switches the device off, as the timer callback does.
PostStopKeeping(failing) ==
  /\ alive
  /\ LET st == [shockerState EXCEPT !.isOn = FALSE]
         fan == broadcastToClients(connectedClients, failing)
     IN /\ shockerState' = st
        /\ sent' = FanOut(fan, [type |-> WS_MESSAGE_TYPES.SHOCK_STOPPED,
                                isOn |-> st.isOn,
                                intensity |-> st.currentIntensity,
                                time |-> st.currentTime])
        /\ response' = IF fan.threw THEN InternalError("stop") ELSE StopBody(st)
  /\ outCalls' = << >>
  /\ log' = {}
  /\ UNCHANGED <<alive, fixedVars, hubVars, activations, timers, scheduled, fired, pending,
                 ytVars>>

\* Mutant: a stop that also clears the pending timers (clearTimeout).
PostStopCancelling(failing) ==
  /\ alive
  /\ LET st == [shockerState EXCEPT !.isOn = FALSE, !.currentIntensity = 0,
                                    !.currentTime = 0]
         fan == broadcastToClients(connectedClients, failing)
     IN /\ shockerState' = st
        /\ sent' = FanOut(fan, [type |-> WS_MESSAGE_TYPES.SHOCK_STOPPED,
                                isOn |-> st.isOn,
                                intensity |-> st.currentIntensity,
                                time |-> st.currentTime])
        /\ response' = IF fan.threw THEN InternalError("stop") ELSE StopBody(st)
  /\ timers' = << >>
  /\ outCalls' = << >>
  /\ log' = {}
  /\ UNCHANGED <<alive, fixedVars, hubVars, activations, scheduled, fired, pending, ytVars>>

\* app.post('/shocker/stop')
PostStop(failing) ==
  /\ alive
  /\ LET st == [shockerState EXCEPT !.isOn = FALSE, !.currentIntensity = 0,
                                    !.currentTime = 0]
         fan == broadcastToClients(connectedClients, failing)
     IN /\ shockerState' = st
        /\ sent' = FanOut(fan, [type |-> WS_MESSAGE_TYPES.SHOCK_STOPPED,
                                isOn |-> st.isOn,
                                intensity |-> st.currentIntensity,
                                time |-> st.currentTime])
        /\ response' = IF fan.threw THEN InternalError("stop") ELSE StopBody(st)
  /\ outCalls' = << >>
  /\ log' = {}
  /\ UNCHANGED <<alive, fixedVars, hubVars, activations, timers, scheduled, fired, pending,
                 ytVars>>

\* A timer may run when no timer set before it has a delay that is not longer.
MayFire(i) == \A j \in 1..(i - 1) : timers[j] > timers[i]

\* Mutant: the callback registered with setInterval: it stays pending after a run.
AutoOffRepeating(i, failing) ==
  /\ alive
  /\ i \in 1..Len(timers)
  /\ MayFire(i)
  /\ fired <= MaxActivations
  /\ LET st == [shockerState EXCEPT !.isOn = FALSE]
         fan == broadcastToClients(connectedClients, failing)
     IN /\ shockerState' = st
        /\ sent' = FanOut(fan, [type |-> WS_MESSAGE_TYPES.STATUS, data |-> st])
        /\ alive' = ~fan.threw
  /\ timers' = timers
  /\ fired' = fired + 1
  /\ outCalls' = << >>
  /\ response' = NoResponse
  /\ log' = {"Shock completed"}
  /\ UNCHANGED <<fixedVars, hubVars, activations, scheduled, pending, ytVars>>

\* Mutant: a callback that resets intensity and time as /shocker/stop does.
AutoOffResetting(i, failing) ==
  /\ alive
  /\ i \in 1..Len(timers)
  /\ MayFire(i)
  /\ LET st == [shockerState EXCEPT !.isOn = FALSE, !.currentIntensity = 0,
                                    !.currentTime = 0]
         fan == broadcastToClients(connectedClients, failing)
     IN /\ shockerState' = st
        /\ sent' = FanOut(fan, [type |-> WS_MESSAGE_TYPES.STATUS, data |-> st])
        /\ alive' = ~fan.threw
  /\ timers' = [j \in 1..(Len(timers) - 1) |-> IF j < i THEN timers[j] ELSE timers[j + 1]]
  /\ fired' = fired + 1
  /\ outCalls' = << >>
  /\ response' = NoResponse
  /\ log' = {"Shock completed"}
  /\ UNCHANGED <<fixedVars, hubVars, activations, scheduled, pending, ytVars>>

\* Mutant: a callback that toggles isOn instead of clearing it.
AutoOffToggling(i, failing) ==
  /\ alive
  /\ i \in 1..Len(timers)
  /\ MayFire(i)
  /\ LET st == [shockerState EXCEPT !.isOn = ~shockerState.isOn]
         fan == broadcastToClients(connectedClients, failing)
     IN /\ shockerState' = st
        /\ sent' = FanOut(fan, [type |-> WS_MESSAGE_TYPES.STATUS, data |-> st])
        /\ alive' = ~fan.threw
  /\ timers' = [j \in 1..(Len(timers) - 1) |-> IF j < i THEN timers[j] ELSE timers[j + 1]]
  /\ fired' = fired + 1
  /\ outCalls' = << >>
  /\ response' = NoResponse
  /\ log' = {"Shock completed"}
  /\ UNCHANGED <<fixedVars, hubVars, activations, scheduled, pending, ytVars>>

\* The setTimeout callback of /shocker/activate.  A throw out of it is an
\* uncaught exception: the process dies.
AutoOff(i, failing) ==
  /\ alive
  /\ i \in 1..Len(timers)
  /\ MayFire(i)
  /\ LET st == [shockerState EXCEPT !.isOn = FALSE]
         fan == broadcastToClients(connectedClients, failing)
     IN /\ shockerState' = st
        /\ sent' = FanOut(fan, [type |-> WS_MESSAGE_TYPES.STATUS, data |-> st])
        /\ alive' = ~fan.threw
  /\ timers' = [j \in 1..(Len(timers) - 1) |-> IF j < i THEN timers[j] ELSE timers[j + 1]]
  /\ fired' = fired + 1
  /\ outCalls' = << >>
  /\ response' = NoResponse
  /\ log' = {"Shock completed"}
  /\ UNCHANGED <<fixedVars, hubVars, activations, scheduled, pending, ytVars>>

\* app.get('/shocker/status')
GetStatus ==
  /\ alive
  /\ response' = ShockerBody("status", shockerState)
  /\ sent' = NothingSent
  /\ outCalls' = << >>
  /\ log' = {}
  /\ UNCHANGED <<alive, fixedVars, hubVars, deviceVars, pending, ytVars>>

(***************************************************************************)
(* The device with its listeners: connections come and go; the device is  *)
(* activated, stopped and switched off by its timers.                      *)
(***************************************************************************)
InitDevice == InitWith({Env(Undef, Undef, Undef, Undef, Undef)}, KeyFiles)

DeviceClients ==
  \E ws \in Conns :
    \/ Connection(ws)
    \/ TransportClosing(ws)
    \/ OnClose(ws)

\* The sockets whose send throws during one fan-out: none, or one (the forEach
\* of broadcastToClients ends at the first throw, so a second one is never met).
Failing == {{}} \cup {{c} : c \in Range(connectedClients)}

DeviceRoutes ==
  \/ \E body \in ActivateBodies, failing \in Failing :
       /\ activateCheck(body.intensity, body.time) /= "ok" => failing = {}
       /\ PostActivate(body, failing)
  \/ \E failing \in Failing : PostStop(failing)
  \/ \E i \in 1..MaxActivations, failing \in Failing : AutoOff(i, failing)

NextDevice == DeviceClients \/ DeviceRoutes \/ GetStatus

SpecDevice == InitDevice /\ [][NextDevice]_vars

(***************************************************************************)
(* The YouTube subscriber-count monitor.                                   *)
(***************************************************************************)
YouTubeConfigured == Truthy(env.YOUTUBE_API_KEY) /\ Truthy(env.YOUTUBE_CHANNEL_ID)

\* process.env.X || fallback
OrElse(v, fallback) == IF Truthy(v) THEN v ELSE fallback

\* A number as parseInt returns it.
AsNumber(parsed) == IF parsed.nan THEN NaNValue ELSE Num(parsed.v)

broadcastOnSubscriberChange == env.YOUTUBE_BROADCAST_ON_CHANGE = Str("true")
broadcastIntensity == AsNumber(parseInt(OrElse(env.YOUTUBE_BROADCAST_INTENSITY, Str("50"))))
broadcastDuration == AsNumber(parseInt(OrElse(env.YOUTUBE_BROADCAST_DURATION, Str("1000"))))
broadcastType == OrElse(env.YOUTUBE_BROADCAST_TYPE, Str("vibrate"))

\* Mutant: a monitor gated on the subscriber map, started only while a
\* subscriber is connected.
startYouTubeSubscriberMonitoringGated ==
  IF ~YouTubeConfigured \/ broadcastSubscribers = << >>
  THEN /\ ytIntervals' = ytIntervals
       /\ ytInFlight' = ytInFlight
       /\ log' = {"YouTube monitoring not started"}
  ELSE /\ ytIntervals' = ytIntervals + 1
       /\ ytInFlight' = ytInFlight + 1
       /\ log' = {"Starting YouTube subscriber count monitoring"}

\* A monitor started once for each of the two servers: two fetches at once,
\* two intervals.
startYouTubeSubscriberMonitoringTwice ==
  IF ~YouTubeConfigured
  THEN /\ ytIntervals' = ytIntervals
       /\ ytInFlight' = ytInFlight
       /\ log' = {"YouTube monitoring not started"}
  ELSE /\ ytIntervals' = ytIntervals + 2
       /\ ytInFlight' = ytInFlight + 2
       /\ log' = {"Starting YouTube subscriber count monitoring"}

\* startYouTubeSubscriberMonitoring(): one fetch at once, then setInterval.
startYouTubeSubscriberMonitoring ==
  IF ~YouTubeConfigured
  THEN /\ ytIntervals' = ytIntervals
       /\ ytInFlight' = ytInFlight
       /\ log' = {"YouTube monitoring not started"}
  ELSE /\ ytIntervals' = ytIntervals + 1
       /\ ytInFlight' = ytInFlight + 1
       /\ log' = {"Starting YouTube subscriber count monitoring"}

\* startServers().then(...): the servers are up, the monitor is started.
ServersStarted ==
  /\ alive
  /\ ~ytStarted
  /\ ytStarted' = TRUE
  /\ startYouTubeSubscriberMonitoring
  /\ sent' = NothingSent
  /\ outCalls' = << >>
  /\ response' = NoResponse
  /\ UNCHANGED <<alive, fixedVars, hubVars, deviceVars, pending, previousSubscriberCount>>

\* The setInterval callback: one more fetch.
PollTick ==
  /\ alive
  /\ ytIntervals > 0
  /\ ytInFlight < MaxPolls
  /\ ytInFlight' = ytInFlight + 1
  /\ ResetOut
  /\ UNCHANGED <<alive, fixedVars, hubVars, deviceVars, pending, ytStarted, ytIntervals,
                 previousSubscriberCount>>

\* The subscriber counts a fetch may resolve with: parseInt of the
\* statistics.subscriberCount field, NaN when the field is missing.
FetchedCounts == {Num(1), Num(2), NaNValue}

\* A monitor that reacts to a growing count only.
StrictlyGreater(a, b) == a.t = "num" /\ b.t = "num" /\ b.ip > a.ip

\* previousSubscriberCount !== currentCount (NaN differs from itself)
StrictlyDiffers(a, b) == a.t = "nan" \/ b.t = "nan" \/ a /= b

\* A monitor that takes the first count it fetches for a change.
PollResolvedEager(currentCount, failing) ==
  /\ alive
  /\ ytInFlight > 0
  /\ ytInFlight' = ytInFlight - 1
  /\ previousSubscriberCount' = currentCount
  /\ IF StrictlyDiffers(previousSubscriberCount, currentCount)
        /\ broadcastOnSubscriberChange
     THEN executeBroadcast(broadcastIntensity, broadcastDuration, broadcastType,
                           failing, "poll")
     ELSE /\ ResetOut
          /\ UNCHANGED <<broadcastSubscribers, pending>>
  /\ UNCHANGED <<alive, fixedVars, readyState, connectedClients, deviceVars, ytStarted,
                 ytIntervals>>

\* getYouTubeSubscriberCount().then(handleSubscriberUpdate)
PollResolved(currentCount, failing) ==
  /\ alive
  /\ ytInFlight > 0
  /\ ytInFlight' = ytInFlight - 1
  /\ previousSubscriberCount' = currentCount
  /\ IF previousSubscriberCount /= null
        /\ StrictlyDiffers(previousSubscriberCount, currentCount)
        /\ broadcastOnSubscriberChange
     THEN executeBroadcast(broadcastIntensity, broadcastDuration, broadcastType,
                           failing, "poll")
     ELSE /\ ResetOut
          /\ UNCHANGED <<broadcastSubscribers, pending>>
  /\ UNCHANGED <<alive, fixedVars, readyState, connectedClients, deviceVars, ytStarted,
                 ytIntervals>>

\* A monitor that gives up on the first failed fetch: the interval is
\* cleared and the last count forgotten.
PollRejectedStopping ==
  /\ alive
  /\ ytInFlight > 0
  /\ ytInFlight' = ytInFlight - 1
  /\ ytIntervals' = 0
  /\ previousSubscriberCount' = null
  /\ sent' = NothingSent
  /\ outCalls' = << >>
  /\ response' = NoResponse
  /\ log' = {"Error fetching YouTube subscriber count"}
  /\ UNCHANGED <<alive, fixedVars, hubVars, deviceVars, pending, ytStarted>>

\* getYouTubeSubscriberCount() rejects: the error is logged.
PollRejected ==
  /\ alive
  /\ ytInFlight > 0
  /\ ytInFlight' = ytInFlight - 1
  /\ sent' = NothingSent
  /\ outCalls' = << >>
  /\ response' = NoResponse
  /\ log' = {"Error fetching YouTube subscriber count"}
  /\ UNCHANGED <<alive, fixedVars, hubVars, deviceVars, pending, ytStarted, ytIntervals,
                 previousSubscriberCount>>

(***************************************************************************)
(* The monitor next to the subscriber map.                                 *)
(***************************************************************************)
PollEnvs == {Env(Undef, Undef, Undef, Undef, Undef),
             Env(Undef, Undef, Str("yt"), Undef, Undef),
             Env(Undef, Undef, Str("yt"), Str("true"), Undef),
             Env(Undef, Undef, Str("yt"), Str("true"), Str("0"))}

InitPoll == InitWith(PollEnvs, KeyFiles)

PollClients ==
  \E ws \in Conns :
    \/ Connection(ws)
    \/ TransportClosing(ws)
    \/ OnClose(ws)
    \/ OnError(ws)
    \/ \E shockers \in {Arr(<<"d1">>), Undef} : OnSubscribe(ws, shockers, Str("key1"), "none")
    \/ OnUnsubscribe(ws, "none")
    \/ \E throws \in Throws : OnPing(ws, throws)
    \/ \E throws \in Throws : OnStatus(ws, throws)
    \/ \E parses, throws \in BOOLEAN : OnOtherMessage(ws, parses, throws)

Monitor ==
  \/ ServersStarted
  \/ PollTick
  \/ \E currentCount \in FetchedCounts : PollResolved(currentCount, {})
  \/ PollRejected

NextPoll == PollClients \/ Monitor

SpecPoll == InitPoll /\ [][NextPoll]_vars

(***************************************************************************)
(* Properties of the hub.                                                  *)
(***************************************************************************)
\* The connections the last step sent a broadcast envelope to.
Notified == {c \in Conns : sent[c].type = WS_MESSAGE_TYPES.BROADCAST}

\* The subscriber entries whose socket is OPEN.
OpenEntries(subs) == {subs[i] : i \in {j \in 1..Len(subs) : IsOpen(subs[j].ws)}}

\* The subscriber keys of the OPEN entries, and the shockers listed under a key.
KeysOf(subs) == {e.apiKey : e \in OpenEntries(subs)}
ShockersOfKey(subs, k) == UNION {Range(e.shockers) : e \in {x \in OpenEntries(subs) : x.apiKey = k}}
AllShockers(subs) == UNION {Range(e.shockers) : e \in OpenEntries(subs)}

ForwardingConfigured == Truthy(env.OPENSHOCK_API_TOKEN) /\ Truthy(env.OPENSHOCK_SHOCKER_IDS)

\* C1 as stated: with forwarding configured, a broadcast that notified
\* subscribers issues, for every subscriber key, one request that carries the
\* union of the shockers of the subscribers with that key.
C1_PerKeyUnion ==
  (Notified /= {} /\ ForwardingConfigured) =>
    \A k \in KeysOf(broadcastSubscribers) :
      Cardinality({i \in 1..Len(outCalls) :
                     Range(outCalls[i].shockers) = ShockersOfKey(broadcastSubscribers, k)}) = 1

\* C1 amended: a broadcast issues at most one request; it issues one exactly
\* when forwarding is configured and the OPEN subscribers list a shocker, and
\* that request carries the union of the shockers of all OPEN subscribers,
\* whatever their keys.
C1_OneCallAllShockers ==
  /\ Len(outCalls) <= 1
  /\ Notified /= {} =>
       /\ Len(outCalls) = 1 <=> (ForwardingConfigured /\ AllShockers(broadcastSubscribers) /= {})
       /\ \A i \in 1..Len(outCalls) :
            Range(outCalls[i].shockers) = AllShockers(broadcastSubscribers)
  /\ Notified = {} => outCalls = << >>

\* Two subscribers under one key with different shockers were notified and the
\* one request carries both shockers.
C1_Witness ==
  \E a, b \in Notified :
    /\ a /= b
    /\ GetSub(broadcastSubscribers, a).apiKey = GetSub(broadcastSubscribers, b).apiKey
    /\ GetSub(broadcastSubscribers, a).shockers = <<"d1">>
    /\ GetSub(broadcastSubscribers, b).shockers = <<"d2">>
    /\ Len(outCalls) = 1
    /\ Range(outCalls[1].shockers) = {"d1", "d2"}

\* C2 as stated: with forwarding configured, a broadcast issues as many
\* requests as its subscribers have distinct keys, each authenticated with its
\* key.
C2_OneCallPerKey ==
  (Notified /= {} /\ ForwardingConfigured) =>
    /\ Len(outCalls) = Cardinality(KeysOf(broadcastSubscribers))
    /\ \A k \in KeysOf(broadcastSubscribers) :
         \E i \in 1..Len(outCalls) : outCalls[i].token = k

\* C2 amended: however many distinct keys the subscribers have, a broadcast
\* with forwarding configured whose OPEN subscribers list a shocker issues
\* exactly one request, and every request is authenticated with the server's
\* OPENSHOCK_API_TOKEN, never with a subscriber's key.
C2_OneCallServerToken ==
  /\ \A i \in 1..Len(outCalls) : outCalls[i].token = env.OPENSHOCK_API_TOKEN
  /\ (Notified /= {} /\ ForwardingConfigured /\ AllShockers(broadcastSubscribers) /= {})
       => Len(outCalls) = 1

\* Two subscribers with different keys were notified and one request went out.
C2_Witness ==
  /\ Cardinality(KeysOf(broadcastSubscribers)) = 2
  /\ Cardinality(Notified) = 2
  /\ Len(outCalls) = 1
  /\ outCalls[1].token = Str("tok")

C6_DisconnectedNotServed ==
  [][/\ \A c \in Conns :
          /\ (c \in Range(connectedClients) /\ c \notin Range(connectedClients'))
               => ~HasSub(broadcastSubscribers', c)
          /\ (~IsOpen(c) \/ ~HasSub(broadcastSubscribers, c))
               => sent'[c].type /= WS_MESSAGE_TYPES.BROADCAST
          /\ readyState'[c] = "CLOSED" => ~HasSub(broadcastSubscribers', c)
     /\ \A i \in 1..Len(outCalls') :
          Range(outCalls'[i].shockers) \subseteq AllShockers(broadcastSubscribers)]_vars

\* A subscribed connection has just had its close event handled and its entry
\* is gone.
C6_Witness ==
  \E c \in Conns :
    /\ readyState[c] = "CLOSED"
    /\ "Removed from broadcast subscribers" \in log
    /\ ~HasSub(broadcastSubscribers, c)
    /\ broadcastSubscribers /= << >>

\* C7 as stated: every connection in the subscriber map is in
\* connectedClients and OPEN.
C7_SubscribersOpen ==
  \A c \in SubscriberSet(broadcastSubscribers) :
    c \in Range(connectedClients) /\ IsOpen(c)

\* C7 amended: every connection in the subscriber map is in connectedClients,
\* and is OPEN or is CLOSING with its close event still to come (an entry is
\* never left behind for a CLOSED socket).
C7_SubscribersRegistered ==
  \A c \in SubscriberSet(broadcastSubscribers) :
    c \in Range(connectedClients) /\ readyState[c] \in {"OPEN", "CLOSING"}

\* A stale entry: the socket has left OPEN, its close event is not yet handled.
C7_Witness ==
  \E c \in SubscriberSet(broadcastSubscribers) :
    readyState[c] = "CLOSING" /\ c \in Range(connectedClients)

KeyRejected(apiKey) == apiKey.t /= "str" \/ apiKey.s \notin apiKeys

\* C8: a /broadcast request whose apiKey is missing or not in apiKeys is
\* answered 401, sends no envelope, issues no request and changes nothing.
C8_UnauthorizedNoEffect ==
  [][\A body \in {b \in BroadcastBodies : KeyRejected(b.apiKey)} :
       PostBroadcast(body, {}) =>
         /\ response'.status = 401
         /\ sent' = NothingSent
         /\ outCalls' = << >>
         /\ UNCHANGED <<broadcastSubscribers, pending, connectedClients, shockerState>>]_vars

\* A 401 was answered while an OPEN subscriber with shockers was waiting and
\* forwarding was configured.
C8_Witness ==
  /\ response = Unauthorized("broadcast")
  /\ ForwardingConfigured
  /\ AllShockers(broadcastSubscribers) /= {}

\* The exact value of a request parameter lies in lo..hi (numbers, and strings
\* that are decimal integer literals).
InRange(v, lo, hi) ==
  CASE v.t = "num" -> /\ ~v.neg
                      /\ lo <= v.ip
                      /\ (v.ip < hi \/ (v.ip = hi /\ ~v.frac))
    [] v.t = "str" -> /\ Chars(v.s) /= << >>
                      /\ DigitPrefix(Chars(v.s)) = Chars(v.s)
                      /\ lo <= DigitsValue(Chars(v.s), 0)
                      /\ DigitsValue(Chars(v.s), 0) <= hi
    [] OTHER -> FALSE

\* C10: an authorized broadcast whose intensity is outside 0..100, whose
\* duration is outside 300..30000 or whose type is neither shock nor vibrate
\* is answered 400, sends no envelope, issues no request and leaves the
\* subscriber map unchanged.
C10_InvalidBroadcastFailsClosed ==
  [][\A body \in {b \in BroadcastBodies :
                     /\ ~KeyRejected(b.apiKey)
                     /\ \/ ~InRange(b.intensity, MinIntensity, MaxIntensity)
                        \/ ~InRange(b.duration, MinTime, MaxTime)
                        \/ ~TypeIncluded(b.type)},
        failing \in SUBSET Conns :
       PostBroadcast(body, failing) =>
         /\ response'.status = 400
         /\ sent' = NothingSent
         /\ outCalls' = << >>
         /\ UNCHANGED <<broadcastSubscribers, pending>>]_vars

(***************************************************************************)
(* Properties of the monitor.                                              *)
(***************************************************************************)
\* A step that handles a subscribe, an unsubscribe or a disconnect.
SubscriptionEvent ==
  \/ \E c \in Conns : sent'[c].type \in {WS_MESSAGE_TYPES.SUBSCRIBED,
                                          WS_MESSAGE_TYPES.UNSUBSCRIBED}
  \/ Len(connectedClients') < Len(connectedClients)

MonitorRunning == ytIntervals > 0

\* C3 (as stated): once the servers are up with YouTube configured, after
\* every subscribe, unsubscribe and disconnect the monitor is running exactly
\* if some subscriber with an OPEN connection exists.
C3_RunningIffSubscriber ==
  [][(ytStarted /\ YouTubeConfigured /\ SubscriptionEvent)
       => (MonitorRunning' <=> OpenEntries(broadcastSubscribers') /= {})]_vars

\* C3 (amended): the monitor does not follow the subscriber map.  Exactly one
\* polling interval exists from the moment the servers are up with YouTube
\* configured, none otherwise, whatever subscribers come and go.
C3_MonitorIndependent ==
  ytIntervals = (IF ytStarted /\ YouTubeConfigured THEN 1 ELSE 0)

\* The monitor is running after the last subscriber unsubscribed.
C3_Witness ==
  /\ MonitorRunning
  /\ broadcastSubscribers = << >>
  /\ \E c \in Conns : sent[c].type = WS_MESSAGE_TYPES.UNSUBSCRIBED

(***************************************************************************)
(* Properties of the device routes.                                        *)
(***************************************************************************)
\* The OPEN connections of the registry whose send does not throw all got a
\* message of the given type.
DeliveredToOpen(failing, type) ==
  \A c \in Range(connectedClients) \ failing : IsOpen(c) => sent'[c].type = type

\* C5: every activate, stop and auto-off state change is delivered to every
\* OPEN connection of the registry, subscribed or not (a connection whose own
\* send throws excepted).
C5_EveryOpenClientNotified ==
  [][/\ \A body \in {b \in ActivateBodies : activateCheck(b.intensity, b.time) = "ok"},
          failing \in Failing :
          PostActivate(body, failing)
            => DeliveredToOpen(failing, WS_MESSAGE_TYPES.SHOCK_ACTIVATED)
     /\ \A failing \in Failing :
          PostStop(failing) => DeliveredToOpen(failing, WS_MESSAGE_TYPES.SHOCK_STOPPED)
     /\ \A i \in 1..MaxActivations, failing \in Failing :
          AutoOff(i, failing) => DeliveredToOpen(failing, WS_MESSAGE_TYPES.STATUS)]_vars

\* The body of an activate request is valid as the interface defines it:
\* intensity within 0..100 and time within 300..30000.
ActivateBodyValid(body) ==
  /\ InRange(body.intensity, MinIntensity, MaxIntensity)
  /\ InRange(body.time, MinTime, MaxTime)

\* C9: an activate request with a missing or out-of-range intensity or time
\* is answered 400 and changes nothing: no device state, no timer, no message.
C9_InvalidActivateRejected ==
  [][\A body \in {b \in ActivateBodies : ~ActivateBodyValid(b)}, failing \in Failing :
       PostActivate(body, failing)
         => /\ response'.status = 400
            /\ sent' = NothingSent
            /\ UNCHANGED deviceVars]_vars

\* The integer a request parameter denotes exactly: a number without a
\* fractional part, or a string that is a decimal integer literal.
ExactInt(v) ==
  IF v.t = "num" THEN v.ip ELSE DigitsValue(Chars(v.s), 0)

\* The device shows the activation a body asks for.
ShowsActivation(st, body) ==
  /\ st.isOn
  /\ InRange(body.intensity, MinIntensity, MaxIntensity)
  /\ st.currentIntensity = ExactInt(body.intensity)
  /\ InRange(body.time, MinTime, MaxTime)
  /\ st.currentTime = ExactInt(body.time)

\* C11: an activate request (its sends not failing) is accepted exactly if its
\* intensity is within 0..100, 0 included, and its time within 300..30000; an
\* accepted request turns the device on with those values, any other request
\* is answered 400 and changes nothing.
C11_ActivateIffValid ==
  [][\A body \in ActivateBodies :
       PostActivate(body, {}) =>
         IF ActivateBodyValid(body)
         THEN response'.status = 200 /\ ShowsActivation(shockerState', body)
         ELSE response'.status = 400 /\ UNCHANGED deviceVars]_vars

\* The device is off with a non-zero intensity or time.
OffNonZero(st) == ~st.isOn /\ (st.currentIntensity /= 0 \/ st.currentTime /= 0)

\* C12 (as stated): whenever the device is off, its intensity and time are 0.
C12_OffImpliesZero ==
  ~shockerState.isOn => shockerState.currentIntensity = 0 /\ shockerState.currentTime = 0

\* C12 (amended): the device is off with a non-zero intensity or time only as
\* the result of a timer callback, which switches it off and keeps the values
\* of the last activation; no other step (stop in particular) produces such a
\* state, it only lasts until the next activate or stop.
C12_OffNonZeroOnlyByAutoOff ==
  [][OffNonZero(shockerState') =>
       \/ shockerState' = shockerState
       \/ /\ fired' = fired + 1
          /\ shockerState' = [shockerState EXCEPT !.isOn = FALSE]]_vars

\* A timer callback has just left the device off with intensity 50.
C12_Witness ==
  /\ OffNonZero(shockerState)
  /\ shockerState.currentIntensity = 50
  /\ log = {"Shock completed"}

\* C13: a stop, in any state and whatever sends fail, leaves the device off
\* with intensity 0 and time 0 and answers exactly that snapshot.
C13_StopAnswersSnapshot ==
  [][\A failing \in Failing :
       PostStop(failing) =>
         /\ ~shockerState'.isOn
         /\ shockerState'.currentIntensity = 0
         /\ shockerState'.currentTime = 0
         /\ response' = StopBody(shockerState')]_vars

\* C14: right after an activate request is answered 200 the device is on with
\* the intensity and the time of the request.
C14_StatusShowsActivation ==
  [][\A body \in ActivateBodies, failing \in Failing :
       (PostActivate(body, failing) /\ response'.status = 200)
         => ShowsActivation(shockerState', body)]_vars

\* C14, second half: with every pending timer eventually run, an activation
\* answered 200 is followed by a state with the device off.
C14_AutoOffHappens ==
  (response.op = "activate" /\ response.status = 200) ~> ~shockerState.isOn

SpecDeviceFair ==
  SpecDevice /\ \A i \in 1..MaxActivations : WF_vars(\E failing \in Failing : AutoOff(i, failing))

\* C15: every activation answered 200 sets one timer, a rejected one sets
\* none, a timer callback runs once and is then gone; so the callbacks run and
\* those pending add up to the activations answered 200, and the runs never
\* exceed them.
C15_OneTimerPerActivation ==
  /\ [](/\ fired + Len(timers) = scheduled
        /\ fired <= scheduled
        /\ scheduled <= activations)
  /\ [][/\ (response'.op = "activate" /\ response'.status = 200)
             => (scheduled' = scheduled + 1 /\ Len(timers') = Len(timers) + 1)
        /\ (response'.op = "activate" /\ response'.status = 400)
             => (scheduled' = scheduled /\ timers' = timers)
        /\ fired' /= fired
             => (fired' = fired + 1 /\ Len(timers') = Len(timers) - 1)]_vars

\* Two activations were answered 200 and both their callbacks have run.
C15_Witness ==
  /\ scheduled = 2
  /\ fired = 2
  /\ timers = << >>

\* C16: neither a stop nor a later activate removes a pending timer, and a
\* timer callback switches the device off whatever timers are still pending.
C16_TimersNeverCancelled ==
  [][/\ response'.op = "stop" => timers' = timers
     /\ response'.op = "activate"
          => (Len(timers') >= Len(timers) /\ SubSeq(timers', 1, Len(timers)) = timers)
     /\ fired' = fired + 1 => ~shockerState'.isOn]_vars

\* The callback of the first activation has just switched the device off
\* while the timer of the second activation (30000 ms) is still pending.
C16_Witness ==
  /\ ~shockerState.isOn
  /\ log = {"Shock completed"}
  /\ scheduled = 2 /\ fired = 1
  /\ shockerState.lastActivated = 2
  /\ shockerState.currentTime = 30000
  /\ timers = <<30000>>

\* C17: a timer callback changes isOn only: currentIntensity, currentTime and
\* lastActivated stay, and /shocker/status answers them as they are.
C17_AutoOffChangesIsOnOnly ==
  [][/\ fired' = fired + 1 => shockerState' = [shockerState EXCEPT !.isOn = FALSE]
     /\ response'.op = "status" => response' = ShockerBody("status", shockerState)]_vars

\* After a timer callback, /shocker/status answers the device off with the
\* intensity 50 and the time 300 of the last activation.
C17_Witness ==
  /\ response.op = "status"
  /\ ~response.isOn
  /\ response.intensity = 50 /\ response.time = 300
  /\ response.lastActivated = 1
  /\ fired = 1

(***************************************************************************)
(* The subscription protocol: subscribe_broadcast messages with missing,   *)
(* empty, blank and malformed shocker lists and API keys, with and without *)
(* a default shocker list in the environment.                              *)
(***************************************************************************)
SubscribeInputs ==
  {[shockers |-> Undef, apiKey |-> Str("key1")],
   [shockers |-> Arr(<< >>), apiKey |-> Str("key1")],
   [shockers |-> Str(" , "), apiKey |-> Str("key1")],
   [shockers |-> Num(7), apiKey |-> Str("key1")],
   [shockers |-> Arr(<<" d1 ", " ">>), apiKey |-> Undef],
   [shockers |-> Str("d1,d2"), apiKey |-> Str("")],
   [shockers |-> Arr(<<"d2">>), apiKey |-> Str(" ")],
   [shockers |-> Arr(<<"d1">>), apiKey |-> Str("key1")]}

InitSubscribe == InitWith(HubEnvs, KeyFiles)

SubscribeRequests ==
  \E ws \in Conns :
    \/ \E m \in SubscribeInputs : OnSubscribe(ws, m.shockers, m.apiKey, "none")
    \/ OnUnsubscribe(ws, "none")

NextSubscribe == Lifecycle \/ SubscribeRequests

SpecSubscribe == InitSubscribe /\ [][NextSubscribe]_vars

\* The shocker list of the message has no entry left after trimming.
BlankList(shockers) ==
  CASE shockers.t = "arr" -> \A i \in 1..Len(shockers.a) : Trim(shockers.a[i]) = ""
    [] shockers.t = "str" ->
         \A i \in 1..Len(SplitComma(shockers.s)) : Trim(SplitComma(shockers.s)[i]) = ""
    [] OTHER -> TRUE

\* The API key of the message is absent, empty or whitespace.
BlankKey(apiKey) == ~(apiKey.t = "str" /\ Trim(apiKey.s) /= "")

\* OPENSHOCK_SHOCKER_IDS as a list, empty when the variable is unset.
DefaultShockers ==
  IF Truthy(env.OPENSHOCK_SHOCKER_IDS)
  THEN TrimAndFilter(SplitComma(env.OPENSHOCK_SHOCKER_IDS.s))
  ELSE << >>

\* C18 as stated: a subscribe whose shocker list resolves to nothing is
\* answered with an error and stores nothing, so that every stored
\* subscription has at least one shocker.
C18_EmptyListRejected ==
  /\ [](\A i \in 1..Len(broadcastSubscribers) : Len(broadcastSubscribers[i].shockers) > 0)
  /\ [][\A ws \in Conns, m \in SubscribeInputs :
          (BlankList(m.shockers) /\ OnSubscribe(ws, m.shockers, m.apiKey, "none"))
            => /\ broadcastSubscribers' = broadcastSubscribers
               /\ sent'[ws].type = WS_MESSAGE_TYPES.ERROR]_vars

\* C18 amended: a subscribe whose shocker list resolves to nothing never
\* fails; it stores an entry holding the shockers of OPENSHOCK_SHOCKER_IDS,
\* or no shocker at all when that variable is unset, and acknowledges with
\* that same list.
C18_EmptyListFallsBack ==
  [][\A ws \in Conns, m \in SubscribeInputs :
       (BlankList(m.shockers) /\ OnSubscribe(ws, m.shockers, m.apiKey, "none"))
         => /\ HasSub(broadcastSubscribers', ws)
            /\ GetSub(broadcastSubscribers', ws).shockers = DefaultShockers
            /\ sent'[ws].type = WS_MESSAGE_TYPES.SUBSCRIBED
            /\ sent'[ws].shockers = DefaultShockers]_vars

\* An acknowledged subscription without any shocker, stored by a server
\* that has no default list.
C18_Witness ==
  \E ws \in Conns :
    /\ ~Truthy(env.OPENSHOCK_SHOCKER_IDS)
    /\ HasSub(broadcastSubscribers, ws)
    /\ GetSub(broadcastSubscribers, ws).shockers = << >>
    /\ sent[ws].type = WS_MESSAGE_TYPES.SUBSCRIBED
    /\ sent[ws].shockers = << >>

\* C19 as stated: a subscribe without a usable API key is answered with an
\* error and stores nothing, so that every stored subscription carries a
\* non-blank key.
C19_BlankKeyRejected ==
  /\ [](\A i \in 1..Len(broadcastSubscribers) : ~BlankKey(broadcastSubscribers[i].apiKey))
  /\ [][\A ws \in Conns, m \in SubscribeInputs :
          (BlankKey(m.apiKey) /\ OnSubscribe(ws, m.shockers, m.apiKey, "none"))
            => /\ broadcastSubscribers' = broadcastSubscribers
               /\ sent'[ws].type = WS_MESSAGE_TYPES.ERROR]_vars

\* C19 amended: the API key of a subscribe is not examined; an absent,
\* empty or whitespace key is stored as it came and the subscribe is
\* acknowledged.
C19_KeyStoredAsGiven ==
  [][\A ws \in Conns, m \in SubscribeInputs :
       (BlankKey(m.apiKey) /\ OnSubscribe(ws, m.shockers, m.apiKey, "none"))
         => /\ HasSub(broadcastSubscribers', ws)
            /\ GetSub(broadcastSubscribers', ws).apiKey = m.apiKey
            /\ sent'[ws].type = WS_MESSAGE_TYPES.SUBSCRIBED]_vars

\* An acknowledged subscription stored without an API key.
C19_Witness ==
  \E ws \in Conns :
    /\ HasSub(broadcastSubscribers, ws)
    /\ GetSub(broadcastSubscribers, ws).apiKey = Undef
    /\ GetSub(broadcastSubscribers, ws).shockers = <<"d1">>
    /\ sent[ws].type = WS_MESSAGE_TYPES.SUBSCRIBED

(***************************************************************************)
(* The outcome of forwarding and the result of a broadcast.                *)
(***************************************************************************)
\* The errors /broadcast answers before anything is sent.
RefusalErrors ==
  {"Unauthorized", "Missing required parameters", "Invalid type", "Invalid intensity",
   "Invalid duration"}

\* What broadcastMessage logs when the OpenShock request did not succeed.
ForwardingFailureLogs ==
  {"OpenShock API: Control failed - Unknown error",
   "OpenShock API: Control failed - api message",
   "OpenShock API error: Failed to parse OpenShock API response",
   "OpenShock API error: OpenShock API request failed"}

\* C20: the outcome of forwarding never fails a broadcast: once the OpenShock
\* request has settled with a non-2xx status or a rejected promise, the
\* answer of /broadcast is still 200 with success; a /broadcast answer that
\* is not a success is always a refusal made before anything was sent, and
\* the process is never brought down.
C20_ForwardingNeverFailsBroadcast ==
  /\ alive
  /\ (log \cap ForwardingFailureLogs /= {})
       => (response.op = "broadcast" /\ response.status = 200 /\ response.success)
  /\ (response.op = "broadcast" /\ ~response.success)
       => (response.status \in {400, 401} /\ response.error \in RefusalErrors)

\* A /broadcast answered 200 with success although its OpenShock request was
\* rejected.
C20_Witness ==
  /\ response.op = "broadcast"
  /\ response.status = 200
  /\ response.success
  /\ log = {"OpenShock API error: OpenShock API request failed"}
  /\ alive

(***************************************************************************)
(* The order of notification and forwarding inside one broadcast.          *)
(***************************************************************************)
\* The shockers of the subscribers that were sent the envelope.
NotifiedShockers ==
  UNION {Range(broadcastSubscribers[i].shockers) :
           i \in {j \in 1..Len(broadcastSubscribers) : broadcastSubscribers[j].ws \in Notified}}

\* C21: when a broadcast issues its OpenShock request, the notification of
\* the subscribers is already over: every subscriber left in the map has been
\* sent the envelope, and the request is built from the map as the
\* notification left it, so it lists no shocker of a subscriber that was
\* dropped while notifying.
C21_NotifiedBeforeForwarding ==
  outCalls /= << >> =>
    /\ \A i \in 1..Len(broadcastSubscribers) : broadcastSubscribers[i].ws \in Notified
    /\ \A i \in 1..Len(outCalls) : Range(outCalls[i].shockers) \subseteq NotifiedShockers

\* A request was issued by a broadcast that dropped one subscriber on a
\* failed send and notified another.
C21_Witness ==
  /\ Len(outCalls) = 1
  /\ log = {"Error sending to broadcast subscriber"}
  /\ Notified /= {}
  /\ Range(outCalls[1].shockers) = NotifiedShockers

(***************************************************************************)
(* Properties of the monitor's polls.                                      *)
(***************************************************************************)
\* The broadcast the monitor is configured with passes both validations.
MonitorBroadcastValid ==
  /\ executeBroadcastCheck(broadcastIntensity, broadcastDuration, broadcastType) = "ok"
  /\ broadcastMessageValid(broadcastIntensity, broadcastDuration, broadcastType)

\* The subscribers whose socket is OPEN.
OpenSubscribers == {ws \in SubscriberSet(broadcastSubscribers) : IsOpen(ws)}

\* C22 as stated: a resolved poll sends the broadcast envelope only when
\* broadcast-on-change is enabled and the fetched count is greater than the
\* count of the poll before.
C22_BroadcastOnlyOnIncrease ==
  [][\A currentCount \in FetchedCounts :
       (PollResolved(currentCount, {})
          /\ \E c \in Conns : sent'[c].type = WS_MESSAGE_TYPES.BROADCAST)
         => /\ broadcastOnSubscriberChange
            /\ previousSubscriberCount.t = "num"
            /\ currentCount.t = "num"
            /\ currentCount.ip > previousSubscriberCount.ip]_vars

\* C22 amended: a resolved poll broadcasts exactly when broadcast-on-change is
\* enabled, a count was seen before and the fetched count is not identical to
\* it, be it greater, smaller or NaN; then every OPEN subscriber is sent the
\* envelope if the configured broadcast is valid, and otherwise nothing is
\* sent and the subscriber map is left alone.
C22_BroadcastOnAnyChange ==
  [][\A currentCount \in FetchedCounts :
       PollResolved(currentCount, {}) =>
         LET triggers == /\ broadcastOnSubscriberChange
                         /\ previousSubscriberCount /= null
                         /\ \/ previousSubscriberCount /= currentCount
                            \/ currentCount = NaNValue
         IN /\ previousSubscriberCount' = currentCount
            /\ ~triggers => /\ sent' = NothingSent
                            /\ broadcastSubscribers' = broadcastSubscribers
            /\ (triggers /\ MonitorBroadcastValid)
                 => \A ws \in OpenSubscribers :
                      sent'[ws].type = WS_MESSAGE_TYPES.BROADCAST]_vars

\* Subscribers were sent the envelope by a poll that fetched the smallest
\* count: the count had not grown.
C22_Witness ==
  /\ previousSubscriberCount = Num(1)
  /\ Notified /= {}
  /\ broadcastOnSubscriberChange

\* C23: a fetch that fails is only logged: it sends nothing, issues no
\* request, leaves the last count, the subscriber map and the process as they
\* were, and the polling interval stays set, so the next tick fetches again.
C23_FailedPollContained ==
  [][PollRejected =>
       /\ alive'
       /\ sent' = NothingSent
       /\ outCalls' = << >>
       /\ pending' = pending
       /\ previousSubscriberCount' = previousSubscriberCount
       /\ broadcastSubscribers' = broadcastSubscribers
       /\ ytIntervals' = ytIntervals
       /\ ytIntervals' > 0
       /\ ytInFlight' < MaxPolls]_vars

\* A fetch failed while broadcast-on-change was enabled, a count had been
\* seen and a subscriber was waiting; the interval is still set.
C23_Witness ==
  /\ log = {"Error fetching YouTube subscriber count"}
  /\ previousSubscriberCount = Num(2)
  /\ broadcastOnSubscriberChange
  /\ OpenSubscribers /= {}
  /\ ytIntervals = 1
  /\ ytInFlight = 0

(***************************************************************************)
(* Properties of the message handler.                                      *)
(***************************************************************************)
\* C24: a message that JSON.parse rejects is answered with the error
\* envelope on its own connection and with nothing else: no other connection
\* is sent anything, the connection stays OPEN and in connectedClients, and
\* shockerState and the subscriber map are left as they were.
C24_MalformedAnsweredWithError ==
  [][\A ws \in Conns :
       OnOtherMessage(ws, FALSE, FALSE) =>
         /\ sent' = [NothingSent EXCEPT ![ws] = [type |-> WS_MESSAGE_TYPES.ERROR,
                                                 message |-> "Invalid message format"]]
         /\ alive'
         /\ readyState' = readyState
         /\ IsOpen(ws)'
         /\ connectedClients' = connectedClients
         /\ shockerState' = shockerState
         /\ broadcastSubscribers' = broadcastSubscribers
         /\ outCalls' = << >>]_vars

\* A subscribed connection was sent the error envelope and is still OPEN,
\* registered and subscribed.
C24_Witness ==
  \E ws \in Conns :
    /\ sent[ws].type = WS_MESSAGE_TYPES.ERROR
    /\ alive
    /\ IsOpen(ws)
    /\ ws \in Range(connectedClients)
    /\ HasSub(broadcastSubscribers, ws)

(***************************************************************************)
(* Failing sends in the fan-out to connectedClients.                       *)
(***************************************************************************)
\* C25: a send that throws in the fan-out of an activate, a stop or an
\* auto-off is contained: every other OPEN connection of the registry is
\* still sent the message and the operation completes, the activate with its
\* 200 answer and its timer, the stop with its 200 answer, the auto-off with
\* the process alive.
C25_FailedSendContained ==
  [][/\ \A body \in {b \in ActivateBodies : activateCheck(b.intensity, b.time) = "ok"},
          failing \in Failing :
          PostActivate(body, failing)
            => /\ DeliveredToOpen(failing, WS_MESSAGE_TYPES.SHOCK_ACTIVATED)
               /\ response'.status = 200
               /\ scheduled' = scheduled + 1
     /\ \A failing \in Failing :
          PostStop(failing)
            => /\ DeliveredToOpen(failing, WS_MESSAGE_TYPES.SHOCK_STOPPED)
               /\ response'.status = 200
     /\ \A i \in 1..MaxActivations, failing \in Failing :
          AutoOff(i, failing)
            => /\ DeliveredToOpen(failing, WS_MESSAGE_TYPES.STATUS)
               /\ alive']_vars

(***************************************************************************)
(* Pruning of the subscriber map while notifying.                          *)
(***************************************************************************)
\* The subscribers a fan-out reaches: socket OPEN and send not throwing.
Reached(failing) == {ws \in SubscriberSet(broadcastSubscribers) : IsOpen(ws) /\ ws \notin failing}

\* C26: whatever sends throw, broadcastToSubscribers leaves in the map
\* exactly the entries whose socket was OPEN and whose send succeeded, each
\* as it was, and returns their number; and after a broadcast that notified
\* someone or met a throwing send, the map holds the notified connections
\* and no other.
C26_PrunedAndCounted ==
  /\ \A failing \in SUBSET Conns :
       LET r == broadcastToSubscribers(broadcastSubscribers, failing)
       IN /\ SubscriberSet(r.subs) = Reached(failing)
          /\ \A i \in 1..Len(r.subs) :
               r.subs[i] = GetSub(broadcastSubscribers, r.subs[i].ws)
          /\ Len(r.subs) = Cardinality(Reached(failing))
          /\ r.sentCount = Cardinality(Reached(failing))
          /\ r.to = Reached(failing)
  /\ (Notified /= {} \/ log = {"Error sending to broadcast subscriber"})
       => /\ SubscriberSet(broadcastSubscribers) = Notified
          /\ \A ws \in Notified : IsOpen(ws)

\* A broadcast met a throwing send and notified one subscriber: the map
\* holds that subscriber alone, while another connection is OPEN without an
\* entry.
C26_Witness ==
  /\ log = {"Error sending to broadcast subscriber"}
  /\ Cardinality(Notified) = 1
  /\ Len(broadcastSubscribers) = 1
  /\ \E ws \in Conns : IsOpen(ws) /\ ~HasSub(broadcastSubscribers, ws)

(***************************************************************************)
(* Forwarding on its own: one subscriber, one valid broadcast, and every   *)
(* kind of answer to the OpenShock request.                                *)
(***************************************************************************)
InitForward == InitWith(HubEnvs, KeyFiles)

ForwardClients ==
  \E ws \in Conns :
    \/ Connection(ws)
    \/ TransportClosing(ws)
    \/ OnClose(ws)
    \/ \E shockers \in {Arr(<<"d1">>), Str("d1,d2")} : OnSubscribe(ws, shockers, Str("key1"), "none")

ForwardBody == Body(Num(50), Num(300), Str("shock"), Str("key1"))

Forwarding ==
  \/ PostBroadcast(ForwardBody, {})
  \/ \E i \in 1..MaxPending, answer \in OpenShockAnswers : ForwardingDone(i, answer)

NextForward == ForwardClients \/ Forwarding

SpecForward == InitForward /\ [][NextForward]_vars

Is2xx(answer) == answer.kind = "response" /\ answer.statusCode \in 200..299

ControlFailedLogs ==
  {"OpenShock API: Control failed - Unknown error",
   "OpenShock API: Control failed - api message"}

RejectionLogs ==
  {"OpenShock API error: Failed to parse OpenShock API response",
   "OpenShock API error: OpenShock API request failed"}

\* C27 as stated: an answer with a non-2xx status always gives the failure
\* result, a rejection comes from a transport failure only, a 2xx with an
\* empty body is a success and a non-2xx with an empty body is a failure
\* with the generic message.
C27_ThreeOutcomes ==
  [][\A i \in 1..MaxPending, answer \in OpenShockAnswers :
       ForwardingDone(i, answer) =>
         /\ (answer.kind = "response" /\ ~Is2xx(answer)) => log' \subseteq ControlFailedLogs
         /\ (log' \cap RejectionLogs /= {}) => answer.kind = "error"
         /\ (Is2xx(answer) /\ answer.data = "") => log' = {"OpenShock API: Control sent"}
         /\ (answer.kind = "response" /\ ~Is2xx(answer) /\ answer.data = "")
              => log' = {"OpenShock API: Control failed - Unknown error"}]_vars

\* The one line broadcastMessage logs for an answer.
ExpectedLog(answer) ==
  CASE answer.kind = "error" -> "OpenShock API error: OpenShock API request failed"
    [] answer.data \notin {"", "json"} ->
         "OpenShock API error: Failed to parse OpenShock API response"
    [] Is2xx(answer) -> "OpenShock API: Control sent"
    [] answer.data = "" -> "OpenShock API: Control failed - Unknown error"
    [] OTHER -> "OpenShock API: Control failed - api message"

\* C27 amended: a forwarding that is answered ends in exactly one of four
\* outcomes: a success for a 2xx with an empty or JSON body, a failure for a
\* non-2xx with an empty body (generic message) or a JSON body, a rejection
\* for a transport error and also for any answer, 2xx or not, whose body is
\* not JSON; and with forwarding not configured no request is sent at all.
C27_FourOutcomes ==
  [][/\ \A i \in 1..MaxPending, answer \in OpenShockAnswers :
          ForwardingDone(i, answer) => log' = {ExpectedLog(answer)}
     /\ (PostBroadcast(ForwardBody, {}) /\ ~ForwardingConfigured)
          => (outCalls' = << >> /\ pending' = pending /\ log' = {})
     /\ (PostBroadcast(ForwardBody, {}) /\ ForwardingConfigured
          /\ AllShockers(broadcastSubscribers) /= {})
          => (Len(outCalls') = 1 /\ Len(pending') = Len(pending) + 1)]_vars

\* A /broadcast was answered after an OpenShock answer whose body could not
\* be parsed was turned into a rejection.
C27_Witness ==
  /\ log = {"OpenShock API error: Failed to parse OpenShock API response"}
  /\ response.op = "broadcast"
  /\ response.status = 200
  /\ pending = << >>

(***************************************************************************)
(* One subscription per connection.                                        *)
(***************************************************************************)
\* The shocker list of a message after trimming and dropping empty entries.
GivenList(shockers) ==
  CASE shockers.t = "arr" -> TrimAndFilter(shockers.a)
    [] shockers.t = "str" -> TrimAndFilter(SplitComma(shockers.s))
    [] OTHER -> << >>

\* C28: no connection has two entries in the subscriber map; a subscribe
\* from a subscribed connection replaces its entry in place, the map keeping
\* its size and every other entry; the entry holds the list of this
\* subscribe (the default list when the message brings none), and the
\* `subscribed` answer carries the stored list.
C28_OneSubscriptionPerConnection ==
  /\ [](\A i, j \in 1..Len(broadcastSubscribers) :
          broadcastSubscribers[i].ws = broadcastSubscribers[j].ws => i = j)
  /\ [][\A ws \in Conns, m \in SubscribeInputs :
          OnSubscribe(ws, m.shockers, m.apiKey, "none") =>
            /\ Len(broadcastSubscribers') =
                 (IF HasSub(broadcastSubscribers, ws) THEN Len(broadcastSubscribers)
                  ELSE Len(broadcastSubscribers) + 1)
            /\ \A i \in 1..Len(broadcastSubscribers) :
                 broadcastSubscribers[i].ws /= ws
                   => broadcastSubscribers'[i] = broadcastSubscribers[i]
            /\ GetSub(broadcastSubscribers', ws).shockers =
                 (IF BlankList(m.shockers) THEN DefaultShockers ELSE GivenList(m.shockers))
            /\ sent'[ws].type = WS_MESSAGE_TYPES.SUBSCRIBED
            /\ sent'[ws].shockers = GetSub(broadcastSubscribers', ws).shockers]_vars

\* The connection that subscribed first has just subscribed again while a
\* second subscriber was in the map: its entry is still the first and holds
\* the list it was answered.
C28_Witness ==
  /\ Len(broadcastSubscribers) = 2
  /\ broadcastSubscribers[1].shockers = <<"d1", "d2">>
  /\ sent[broadcastSubscribers[1].ws].type = WS_MESSAGE_TYPES.SUBSCRIBED
  /\ sent[broadcastSubscribers[1].ws].shockers = <<"d1", "d2">>

(***************************************************************************)
(* Unsubscribing.                                                          *)
(***************************************************************************)
\* The map without the entry of ws, the other entries in their order.
Without(subs, ws) == SelectSeq(subs, LAMBDA e : e.ws /= ws)

\* C29: an unsubscribe deletes the sender's entry and no other, says in its
\* answer whether there was one, changes nothing when there was none, leaves
\* the sender without an entry, so that a second unsubscribe changes nothing,
\* and leaves the sender OPEN and in connectedClients.
C29_UnsubscribeRemovesOwnEntry ==
  [][\A ws \in Conns :
       OnUnsubscribe(ws, "none") =>
         /\ broadcastSubscribers' = Without(broadcastSubscribers, ws)
         /\ ~HasSub(broadcastSubscribers, ws) => broadcastSubscribers' = broadcastSubscribers
         /\ Without(broadcastSubscribers', ws) = broadcastSubscribers'
         /\ sent'[ws].type = WS_MESSAGE_TYPES.UNSUBSCRIBED
         /\ sent'[ws].message = (IF HasSub(broadcastSubscribers, ws)
                                 THEN "Successfully unsubscribed from broadcasts"
                                 ELSE "Not subscribed to broadcasts")
         /\ connectedClients' = connectedClients
         /\ readyState' = readyState]_vars

\* One of two subscribers has just unsubscribed: the other's entry is in
\* the map, and the sender is still OPEN and registered.
C29_Witness ==
  \E ws \in Conns :
    /\ sent[ws].type = WS_MESSAGE_TYPES.UNSUBSCRIBED
    /\ sent[ws].message = "Successfully unsubscribed from broadcasts"
    /\ Len(broadcastSubscribers) = 1
    /\ ~HasSub(broadcastSubscribers, ws)
    /\ IsOpen(ws)
    /\ ws \in Range(connectedClients)

(***************************************************************************)
(* A timer that fires after a stop.                                        *)
(***************************************************************************)
\* The device state as /shocker/stop leaves it.
Stopped(st) == ~st.isOn /\ st.currentIntensity = 0 /\ st.currentTime = 0

\* C30: a stop leaves every pending timer pending, and a timer callback that
\* runs while the device is as a stop left it changes nothing of
\* shockerState: isOn stays false, intensity and time stay 0.
C30_LateTimerNoOp ==
  [][/\ response'.op = "stop"
          => (timers' = timers /\ scheduled' = scheduled /\ fired' = fired)
     /\ (fired' = fired + 1 /\ Stopped(shockerState))
          => (shockerState' = shockerState /\ Stopped(shockerState'))]_vars

\* The timer of an activation that was stopped has just fired: the device
\* is off with intensity and time 0.
C30_Witness ==
  /\ log = {"Shock completed"}
  /\ Stopped(shockerState)
  /\ shockerState.lastActivated = 1
  /\ scheduled = 1
  /\ fired = 1
  /\ timers = << >>

(***************************************************************************)
(* Broadcasts interleaved with the connections: forwarding configured or   *)
(* not, subscribers with and without shockers, and the requests in flight  *)
(* kept with their payload.  Every request is answered 200.                *)
(***************************************************************************)
InitInterleave == InitRecording(HubEnvs, KeyFiles, TRUE)

\* The shocker lists of the subscribers: one shocker, or none.
InterleaveLists == {Arr(<<"d1">>), Arr(<< >>)}

InterleaveClients ==
  \E ws \in Conns :
    \/ Connection(ws)
    \/ OnClose(ws)
    \/ OnError(ws)
    \/ \E shockers \in InterleaveLists : OnSubscribe(ws, shockers, Str("key1"), "none")
    \/ OnUnsubscribe(ws, "none")

Dispatches ==
  \/ PostBroadcast(ForwardBody, {})
  \/ \E i \in 1..MaxPending : ForwardingDone(i, Answer(200, "json"))

NextInterleave == InterleaveClients \/ Dispatches

SpecInterleave == InitInterleave /\ [][NextInterleave]_vars

\* pending without its i-th request.
PendingWithout(i) == [j \in 1..(Len(pending) - 1) |-> IF j < i THEN pending[j] ELSE pending[j + 1]]

\* C31: the shockers a broadcast writes into its OpenShock request are those
\* collected from the subscribers in that same step, and the subscribers it
\* notified are those sent the envelope in that step; while the request is
\* in flight no subscribe, unsubscribe, close or error changes either, and
\* the settling of a request removes that request alone.
C31_InFlightCallIsSnapshot ==
  [][/\ Len(pending') = Len(pending) => pending' = pending
     /\ Len(pending') > Len(pending) =>
          /\ pending' = Append(pending, pending'[Len(pending')])
          /\ Len(outCalls') = 1
          /\ pending'[Len(pending')].shockers = outCalls'[1].shockers
          /\ Range(outCalls'[1].shockers) = AllShockers(broadcastSubscribers)'
          /\ pending'[Len(pending')].notified =
               {c \in Conns : sent'[c].type = WS_MESSAGE_TYPES.BROADCAST}
     /\ Len(pending') < Len(pending) =>
          \E i \in 1..Len(pending) : pending' = PendingWithout(i)]_vars

\* A request is in flight with shocker d1 for a subscriber it notified; that
\* subscriber has since closed, and the only entry of the map now is another
\* connection's, with the default shocker d3.
C31_Witness ==
  /\ Len(pending) = 1
  /\ pending[1].shockers = <<"d1">>
  /\ \E ws \in pending[1].notified : readyState[ws] = "CLOSED"
  /\ Len(broadcastSubscribers) = 1
  /\ broadcastSubscribers[1].ws \notin pending[1].notified
  /\ broadcastSubscribers[1].shockers = <<"d3">>

\* The server goes on handling what its clients send; nothing makes the
\* OpenShock API answer a request.
SpecInterleaveFair ==
  SpecInterleave /\ WF_vars(InterleaveClients) /\ WF_vars(PostBroadcast(ForwardBody, {}))

\* C32 as stated: a broadcast suspended on its OpenShock request is
\* eventually answered to the caller of /broadcast, whether or not the API
\* answers the request.
C32_DispatchReturns ==
  (Len(pending) > 0) ~> (response.op = "broadcast" /\ response.status = 200)

\* The connection is in neither collection.
Absent(ws) == ws \notin Range(connectedClients) /\ ~HasSub(broadcastSubscribers, ws)

C34_OneTimerOneImmediatePoll ==
  [][/\ ytIntervals' <= 1
     /\ ytIntervals' /= ytIntervals =>
          /\ ytIntervals = 0 /\ ytIntervals' = 1
          /\ ytInFlight = 0 /\ ytInFlight' = 1
          /\ ~ytStarted /\ ytStarted'
     /\ (ytInFlight' > ytInFlight /\ ytIntervals' = ytIntervals) =>
          (ytIntervals = 1 /\ ytInFlight' = ytInFlight + 1)
     /\ SubscriptionEvent => ytIntervals' = ytIntervals]_vars

\* The one interval has issued a fetch after the immediate one was answered,
\* while a subscriber is in the map.
C34_Witness ==
  /\ ytIntervals = 1
  /\ ytInFlight = 1
  /\ previousSubscriberCount /= null
  /\ broadcastSubscribers /= << >>

(***************************************************************************)
(* GET /admin/keys, and the key set under every kind of request.           *)
(***************************************************************************)
\* A listing that registers the key it was asked with.
GetAdminKeysRegistering(apiKey) ==
  /\ alive
  /\ response' = IF ~Truthy(apiKey) \/ ~validateApiKey(apiKey)
                 THEN Unauthorized("keys")
                 ELSE [op |-> "keys", status |-> 200, success |-> TRUE, error |-> "",
                       count |-> Cardinality(apiKeys), keys |-> apiKeys]
  /\ apiKeys' = IF apiKey.t = "str" /\ Truthy(apiKey) THEN apiKeys \cup {apiKey.s} ELSE apiKeys
  /\ sent' = NothingSent
  /\ outCalls' = << >>
  /\ log' = {}
  /\ UNCHANGED <<alive, env, recording, hubVars, deviceVars, pending, ytVars>>

\* app.get('/admin/keys')
GetAdminKeys(apiKey) ==
  /\ alive
  /\ response' = IF ~Truthy(apiKey) \/ ~validateApiKey(apiKey)
                 THEN Unauthorized("keys")
                 ELSE [op |-> "keys", status |-> 200, success |-> TRUE, error |-> "",
                       count |-> Cardinality(apiKeys), keys |-> apiKeys]
  /\ sent' = NothingSent
  /\ outCalls' = << >>
  /\ log' = {}
  /\ UNCHANGED <<alive, fixedVars, hubVars, deviceVars, pending, ytVars>>

\* api-keys.txt with no key, one key, two keys.
KeySets == {{}, {"key1"}, {"key1", "key2"}}

\* What a request may carry as its apiKey.
KeyInputs == {Undef, Num(0), Str(""), Str("key1"), Str("key2"), Str("bad")}

InitKeys == InitWith({Env(Undef, Undef, Undef, Undef, Undef)}, KeySets)

KeyClients ==
  \E ws \in Conns :
    \/ Connection(ws)
    \/ OnClose(ws)
    \/ \E apiKey \in {Undef, Str("key2"), Str("bad")} :
         OnSubscribe(ws, Arr(<<"d1">>), apiKey, "none")
    \/ OnUnsubscribe(ws, "none")

KeyRoutes ==
  \/ \E apiKey \in KeyInputs : GetAdminKeys(apiKey)
  \/ \E apiKey \in KeyInputs :
       PostBroadcast(Body(Num(50), Num(300), Str("shock"), apiKey), {})
  \/ PostActivate(ActivateBody(Num(50), Num(300)), {})
  \/ PostStop({})

NextKeys == KeyClients \/ KeyRoutes

SpecKeys == InitKeys /\ [][NextKeys]_vars

\* C35: no request and no message changes the key set; /admin/keys and
\* /broadcast answer 401 exactly when the apiKey they are given is not a
\* string of the set; and a key that is refused before a step is refused
\* after it.
C35_KeySetFixed ==
  [][/\ apiKeys' = apiKeys
     /\ \A apiKey \in KeyInputs :
          /\ (response'.op = "keys" /\ GetAdminKeys(apiKey)) =>
               (response'.status = 401 <=> ~(apiKey.t = "str" /\ apiKey.s \in apiKeys))
          /\ (response'.op = "broadcast"
                /\ PostBroadcast(Body(Num(50), Num(300), Str("shock"), apiKey), {})) =>
               (response'.status = 401 <=> ~(apiKey.t = "str" /\ apiKey.s \in apiKeys))
          /\ ~validateApiKey(apiKey) => ~validateApiKey(apiKey)']_vars

\* The keys are listed, key1 alone, while a subscriber is in the map that
\* subscribed with key2.
C35_Witness ==
  /\ response.op = "keys"
  /\ response.status = 200
  /\ response.keys = {"key1"}
  /\ \E i \in 1..Len(broadcastSubscribers) : broadcastSubscribers[i].apiKey = Str("key2")

\* C36 as stated: the `subscribers` field of a successful broadcast result is
\* the number of subscribers that broadcast sent its envelope to, both when
\* the result is built in the step of the request and when it is built after
\* the OpenShock request was in flight.
C36_CountIsNotified ==
  [][/\ (response'.op = "broadcast" /\ response'.status = 200 /\ Len(pending') = Len(pending))
          => response'.subscribers =
               Cardinality({c \in Conns : sent'[c].type = WS_MESSAGE_TYPES.BROADCAST})
     /\ \A i \in 1..Len(pending) :
          (response'.op = "broadcast" /\ ForwardingDone(i, Answer(200, "json")))
            => response'.subscribers = Cardinality(pending[i].notified)]_vars

\* C37 as stated: a valid broadcast met by no OPEN subscriber that lists a
\* shocker issues no OpenShock request, sends no envelope and answers success
\* with `subscribers` 0.
C37_NothingWhenNoShockers ==
  [][(AllShockers(broadcastSubscribers) = {} /\ PostBroadcast(ForwardBody, {}))
       => /\ outCalls' = << >>
          /\ sent' = NothingSent
          /\ response' = BroadcastOk(ForwardBody.intensity, ForwardBody.duration,
                                     ForwardBody.type, << >>)]_vars

\* C37 amended: such a broadcast issues no OpenShock request and answers
\* success at once, but it sends the envelope to every OPEN subscriber, those
\* with an empty shocker list, and `subscribers` is their number: 0 only when
\* no subscriber is OPEN.
C37_NoRequestButNotified ==
  [][(AllShockers(broadcastSubscribers) = {} /\ PostBroadcast(ForwardBody, {}))
       => /\ outCalls' = << >>
          /\ pending' = pending
          /\ {c \in Conns : sent'[c].type = WS_MESSAGE_TYPES.BROADCAST} = OpenSubscribers
          /\ response' = BroadcastOk(ForwardBody.intensity, ForwardBody.duration,
                                     ForwardBody.type, broadcastSubscribers')
          /\ response'.subscribers = Cardinality(OpenSubscribers)]_vars

\* A broadcast was answered with `subscribers` 1 and no request issued: the
\* one subscriber, whose shocker list is empty, was sent the envelope.
C37_Witness ==
  /\ response.op = "broadcast"
  /\ response.subscribers = 1
  /\ outCalls = << >>
  /\ Len(broadcastSubscribers) = 1
  /\ broadcastSubscribers[1].shockers = << >>
  /\ Notified = {broadcastSubscribers[1].ws}

\* C38: a fetch that resolves while previousSubscriberCount is still null
\* records the count and does nothing else, whatever the count; once a count
\* is recorded the variable is never null again; it changes only when a fetch
\* resolves, to the count of that fetch, so a later resolved fetch is compared
\* with the count of the resolved fetch before it, and sends the envelope
\* only if the two differ.
C38_FirstPollOnlyRecords ==
  [][/\ \A currentCount \in FetchedCounts :
          (ytInFlight' < ytInFlight /\ PollResolved(currentCount, {}))
            => /\ previousSubscriberCount' = currentCount
               /\ previousSubscriberCount = null
                    => /\ sent' = NothingSent
                       /\ outCalls' = << >>
                       /\ pending' = pending
                       /\ broadcastSubscribers' = broadcastSubscribers
               /\ (\E c \in Conns : sent'[c].type = WS_MESSAGE_TYPES.BROADCAST)
                    => StrictlyDiffers(previousSubscriberCount, currentCount)
     /\ previousSubscriberCount /= null => previousSubscriberCount' /= null
     /\ previousSubscriberCount' /= previousSubscriberCount
          => /\ ytInFlight' = ytInFlight - 1
             /\ previousSubscriberCount' \in FetchedCounts
             /\ log' /= {"Error fetching YouTube subscriber count"}]_vars

\* A count was recorded and nothing sent, with broadcast-on-change enabled,
\* a valid broadcast configured and an OPEN subscriber in the map.
C38_Witness ==
  /\ previousSubscriberCount /= null
  /\ ytInFlight = 0
  /\ ytIntervals = 1
  /\ sent = NothingSent
  /\ log = {}
  /\ broadcastOnSubscriberChange
  /\ MonitorBroadcastValid
  /\ OpenSubscribers /= {}

(***************************************************************************)
(* /broadcast with every pairing of a key and a parameter fault.           *)
(***************************************************************************)
\* Parameters that pass, and one for each check of executeBroadcast to fail,
\* and one that fails them all.
GateParameters ==
  {<<Num(50), Num(300), Str("shock")>>,
   <<Undef, Num(300), Str("shock")>>,
   <<Num(50), Num(300), Str("zap")>>,
   <<Num(101), Num(300), Str("shock")>>,
   <<Num(50), Num(299), Str("shock")>>,
   <<Undef, Undef, Undef>>}

GateBodies ==
  {Body(p[1], p[2], p[3], apiKey) :
     p \in GateParameters, apiKey \in {Undef, Str(""), Str("key1"), Str("key2"), Str("bad")}}

InitGate == InitWith({Env(Undef, Undef, Undef, Undef, Undef)}, KeySets)

GateClients ==
  \E ws \in Conns :
    \/ Connection(ws)
    \/ OnClose(ws)
    \/ OnSubscribe(ws, Arr(<<"d1">>), Str("key1"), "none")

GateRequests == \E body \in GateBodies : PostBroadcast(body, {})

NextGate == GateClients \/ GateRequests

SpecGate == InitGate /\ [][NextGate]_vars

\* The parameters pass the checks of executeBroadcast.
GateParametersValid(body) ==
  executeBroadcastCheck(body.intensity, body.duration, body.type) = "ok"

\* C39: a /broadcast request whose apiKey is absent, empty or not in the key
\* set gets the same 401 answer whether its parameters are valid, missing or
\* invalid, and nothing is sent; the parameter errors (400) are answered to
\* authorized requests only.
C39_KeyCheckedFirst ==
  [][\A body \in GateBodies :
       (response'.op = "broadcast" /\ PostBroadcast(body, {}))
         => /\ KeyRejected(body.apiKey)
                => /\ response' = Unauthorized("broadcast")
                   /\ sent' = NothingSent
                   /\ log' = {}
            /\ response'.status = 400
                => (~KeyRejected(body.apiKey) /\ ~GateParametersValid(body))]_vars

\* A 401 was answered while the key set was empty and an OPEN subscriber was
\* in the map: no key there is could have passed.
C39_Witness ==
  /\ response = Unauthorized("broadcast")
  /\ apiKeys = {}
  /\ OpenSubscribers /= {}

\* C40: in every state shockerState.currentIntensity is an integer from 0 to
\* 100 and shockerState.currentTime is 0 or an integer from 300 to 30000,
\* whatever activate requests were accepted or refused, whatever stops and
\* timer callbacks ran and whatever sends threw.
C40_StateInRange ==
  /\ shockerState.currentIntensity \in MinIntensity..MaxIntensity
  /\ shockerState.currentTime \in {0} \cup (MinTime..MaxTime)

\* A timer callback has just switched the device off; the state keeps the
\* largest intensity, stored for a request that gave 100.5.
C40_Witness ==
  /\ ~shockerState.isOn
  /\ shockerState.currentIntensity = MaxIntensity
  /\ shockerState.currentTime = MinTime
  /\ log = {"Shock completed"}

=============================================================================
